---- MODULE Spec2Model ----
(***************************************************************************)
(* SysPulse: the AWS auditor (src/app/aws_audit.py) and the audit routes   *)
(* of the Flask application (src/app/app.py).                              *)
(*                                                                         *)
(* Conventions.  Money is counted in cents (150.00 USD = 15000).  A time   *)
(* stamp of a resource is its age in hours at the audit instant.  The id   *)
(* of the k-th listed resource of a kind is the pair <<prefix, k>>.  The   *)
(* human strings of a finding (description, recommendation) and its        *)
(* region/timestamp are not modelled.                                      *)
(***************************************************************************)
EXTENDS Integers, Sequences, FiniteSets, TLC

\* ------------------------------------------------------------------ bounds
\* Resources plus failing cloud calls in the audited account.
MaxItems == 2
\* Audit calls made on the auditor in one behaviour.
MaxCalls == 2
\* Items of the accounts of the route specification.
MaxRouteItems == 1
\* Sampler ticks of the history specification (beyond the buffer capacity).
MaxTicks == 722
\* Sampler ticks of the monitor specification.
MaxSamples == 4
\* Sampler ticks of the specification of the history window (beyond the
\* sixty entries returned).
MaxAppends == 62
\* Sampler ticks begun before the history is requested in that specification.
QuietTicks == 58
\* Dashboard hits started, hits of the second handler thread among them, and
\* hits on which the remote cache fails.
MaxHits == 4
MaxOverlaps == 1
MaxRemoteFailures == 1
\* Dashboard hits of the specification with one handler thread (beyond the
\* fifty visits kept).
MaxVisits == 52

\* --------------------------------------------------------------- constants
HoursPerDay == 24
IdleDays == 7
SnapshotDays == 365
LambdaDays == 30
KeyDays == 90
IdleSavings == 15000
StoppedSavings == 6000
EipSavings == 360
CentsPerGb == 300
QuickEbsCost == 500
QuickEipCost == 360
QuickStoppedCost == 1000
DemoSavings == 24575
DemoTotalResources == 15
DemoTotalFindings == 8
DemoCriticalFindings == 3
DemoFindingSavings == 1500
\* app.py: percentages are in hundredths of a percent where the code rounds
\* to two places, in thousandths where it does not.
max_history == 720
HistoryWindow == 60
METRICS_INTERVAL == 5
ALERT_CPU_THRESHOLD == 8000
ALERT_MEMORY_THRESHOLD == 8500
ALERT_DISK_THRESHOLD == 9000
CpuCritical == 9000
MemoryCritical == 9500
BytesPerKb == 1024
VisitsKept == 50
TrimEnd == 49
RecentEnd == 9
FlaskRecent == 10

RiskyPorts == {22, 3389, 1433, 3306, 5432, 1521}

\* The key of run_complete_audit's services dict, in assignment order.
ServiceNames ==
  << "ec2", "lambda", "ecs", "batch", "s3", "ebs", "efs", "rds", "dynamodb",
     "elasticache", "vpc", "cloudfront", "route53", "api_gateway", "iam",
     "security_groups", "kms", "cloudwatch", "cloudformation", "code_services",
     "sns", "sqs", "eventbridge", "cost_analysis", "compliance" >>

\* ------------------------------------------------- the audited account
\* What the cloud answers.  Each variant is one resource as the API lists it.
NoPort == -1

InstanceVariants ==
  { [state |-> "running",    age |-> 240, reason |-> "", hasLaunchTime |-> TRUE],
    [state |-> "running",    age |-> 72,  reason |-> "", hasLaunchTime |-> TRUE],
    [state |-> "running",    age |-> 169, reason |-> "", hasLaunchTime |-> TRUE],
    [state |-> "running",    age |-> 241,
     reason |-> "Client.UserInitiatedShutdown", hasLaunchTime |-> TRUE],
    [state |-> "stopped",    age |-> 500, reason |-> "", hasLaunchTime |-> TRUE],
    [state |-> "terminated", age |-> 300, reason |-> "", hasLaunchTime |-> TRUE],
    [state |-> "running",    age |-> 0,   reason |-> "", hasLaunchTime |-> FALSE] }

VolumeVariants ==
  { [State |-> "available", Size |-> 50],
    [State |-> "available", Size |-> 8],
    [State |-> "in-use",    Size |-> 50] }

\* StartTime as an age in hours: 400 days and 10 days.
SnapshotVariants == { [age |-> 9600], [age |-> 240] }

AddressVariants ==
  { [InstanceId |-> FALSE, NetworkInterfaceId |-> FALSE],
    [InstanceId |-> TRUE,  NetworkInterfaceId |-> TRUE] }

\* An ingress permission: one CIDR range and a port range (NoPort: the key
\* is absent, as for an all-traffic rule).
RuleOpen22 == [cidr |-> "0.0.0.0/0", FromPort |-> 22, ToPort |-> 22]
RuleOpen3389 == [cidr |-> "0.0.0.0/0", FromPort |-> 3389, ToPort |-> 3389]
RuleOpenRange == [cidr |-> "0.0.0.0/0", FromPort |-> 20, ToPort |-> 25]
RuleOpenAll == [cidr |-> "0.0.0.0/0", FromPort |-> NoPort, ToPort |-> NoPort]
RuleOpen80 == [cidr |-> "0.0.0.0/0", FromPort |-> 80, ToPort |-> 80]
RulePrivate22 == [cidr |-> "10.0.0.0/8", FromPort |-> 22, ToPort |-> 22]

SecurityGroupVariants ==
  { [rules |-> << >>],
    [rules |-> << RuleOpen22 >>],
    [rules |-> << RuleOpen22, RuleOpen3389 >>],
    [rules |-> << RuleOpenRange >>],
    [rules |-> << RuleOpenAll >>],
    [rules |-> << RuleOpen80 >>],
    [rules |-> << RulePrivate22 >>] }

\* objects: list_objects_v2; policy: get_bucket_policy_status; encryption:
\* get_bucket_encryption; versioning: get_bucket_versioning.  "error" and
\* "denied" are calls that raise; "notfound" is the not-found answer.
BucketVariants ==
  { [hasCreationDate |-> TRUE, objects |-> "some", policy |-> "public",
     encryption |-> "notfound", versioning |-> "off"],
    [hasCreationDate |-> TRUE, objects |-> "some", policy |-> "private",
     encryption |-> "ok", versioning |-> "Enabled"],
    [hasCreationDate |-> TRUE, objects |-> "none", policy |-> "error",
     encryption |-> "ok", versioning |-> "off"],
    [hasCreationDate |-> TRUE, objects |-> "some", policy |-> "private",
     encryption |-> "denied", versioning |-> "Enabled"],
    [hasCreationDate |-> TRUE, objects |-> "error", policy |-> "public",
     encryption |-> "notfound", versioning |-> "off"],
    [hasCreationDate |-> FALSE, objects |-> "some", policy |-> "private",
     encryption |-> "ok", versioning |-> "Enabled"] }

\* mfa: list_mfa_devices ("error": the call raises for this user); keys: the
\* ages in hours of the user's access keys (120 days, 30 days).
UserVariants ==
  { [mfa |-> "no",    keys |-> << 2880 >>],
    [mfa |-> "yes",   keys |-> << >>],
    [mfa |-> "yes",   keys |-> << 720 >>],
    [mfa |-> "no",    keys |-> << >>],
    [mfa |-> "error", keys |-> << 2880 >>] }

\* LastModified as an age in hours (60 days, 5 days).
FunctionVariants ==
  { [hasRuntime |-> TRUE,  age |-> 1440],
    [hasRuntime |-> TRUE,  age |-> 120],
    [hasRuntime |-> FALSE, age |-> 1440] }

DbVariants ==
  { [PubliclyAccessible |-> TRUE,  DBInstanceStatus |-> "available"],
    [PubliclyAccessible |-> FALSE, DBInstanceStatus |-> "stopped"],
    [PubliclyAccessible |-> FALSE, DBInstanceStatus |-> "available"] }

VpcVariants == { [IsDefault |-> TRUE], [IsDefault |-> FALSE] }

\* Resources that are only counted.
PlainVariants == { [plain |-> TRUE] }

\* The enumeration calls that can fail as a whole.
CloudCalls ==
  { "describe_instances", "describe_volumes", "describe_snapshots",
    "describe_addresses", "describe_security_groups", "describe_images",
    "list_functions", "list_buckets", "describe_db_instances",
    "describe_vpcs", "describe_network_interfaces", "list_users",
    "list_roles", "list_policies", "list_topics" }

\* The kinds of item of an account, in the order the items are drawn.
Kinds ==
  << "instances", "volumes", "snapshots", "addresses", "sgs", "amis",
     "functions", "buckets", "dbs", "vpcs", "users", "roles", "policies",
     "topics", "failing" >>

VariantsOf(kind) ==
  CASE kind = "instances" -> InstanceVariants
    [] kind = "volumes"   -> VolumeVariants
    [] kind = "snapshots" -> SnapshotVariants
    [] kind = "addresses" -> AddressVariants
    [] kind = "sgs"       -> SecurityGroupVariants
    [] kind = "functions" -> FunctionVariants
    [] kind = "buckets"   -> BucketVariants
    [] kind = "dbs"       -> DbVariants
    [] kind = "vpcs"      -> VpcVariants
    [] kind = "users"     -> UserVariants
    [] kind = "failing"   -> CloudCalls
    [] OTHER              -> PlainVariants

AllItems == UNION { { <<k, v>> : v \in VariantsOf(Kinds[k]) } : k \in 1..Len(Kinds) }

\* Item lists grouped by kind (the order inside one kind is the listing order).
ItemLists ==
  { s \in UNION { [1..n -> AllItems] : n \in 0..MaxItems } :
      \A i \in 1..(Len(s) - 1) : s[i][1] <= s[i + 1][1] }

KindIndex(kind) == CHOOSE k \in 1..Len(Kinds) : Kinds[k] = kind

Listed(items, kind) ==
  LET sel == SelectSeq(items, LAMBDA it : it[1] = KindIndex(kind))
  IN  [i \in 1..Len(sel) |-> sel[i][2]]

AccountOf(items) ==
  [ instances |-> Listed(items, "instances"),
    volumes   |-> Listed(items, "volumes"),
    snapshots |-> Listed(items, "snapshots"),
    addresses |-> Listed(items, "addresses"),
    sgs       |-> Listed(items, "sgs"),
    amis      |-> Listed(items, "amis"),
    functions |-> Listed(items, "functions"),
    buckets   |-> Listed(items, "buckets"),
    dbs       |-> Listed(items, "dbs"),
    vpcs      |-> Listed(items, "vpcs"),
    users     |-> Listed(items, "users"),
    roles     |-> Listed(items, "roles"),
    policies  |-> Listed(items, "policies"),
    topics    |-> Listed(items, "topics"),
    failing   |-> { items[i][2] : i \in { j \in 1..Len(items) : items[j][1] = KindIndex("failing") } },
    drift     |-> 0 ]

EmptyAccount == AccountOf(<< >>)

VARIABLES
  account,              \* what the cloud answers (never changes)
  demo_mode,            \* AWSComprehensiveAuditor.demo_mode
  findings,             \* AWSComprehensiveAuditor.findings
  origin,               \* history: for findings[i], the audit and the call that appended it
  calls,                \* history: audit calls made so far
  phase,                \* "boot" before app.py's start-up block has run, then "serving"
  AWS_AUDIT_AVAILABLE,  \* app.py's module flag
  report,               \* what the last audit call returned
  returned,             \* history: what each audit method returned during the last call
  response,             \* what the last HTTP request answered
  \* --- RealTimeMonitor (app.py:128-338)
  host,                 \* what psutil answers, tick after tick (never changes)
  clock,                \* turns of the sampler loop begun so far
  sampler,              \* the sampler thread: its position and locals
  cpu_history,          \* RealTimeMonitor.cpu_history
  memory_history,       \* RealTimeMonitor.memory_history
  disk_history,         \* RealTimeMonitor.disk_history
  current_metrics,      \* RealTimeMonitor.current_metrics
  last_net_io,          \* RealTimeMonitor.last_net_io
  last_net_time,        \* RealTimeMonitor.last_net_time
  appended,             \* history: every entry ever appended, per buffer
  reader,               \* a thread inside get_history or health: its position and locals
  stream,               \* the generator of /api/metrics/live and its client
  \* --- the visitor counter (app.py:343-401)
  REDIS_AVAILABLE,      \* app.py's module flag
  redis_data,           \* the keys of redis_client (the remote cache or the MemoryStore)
  remote_contacted,     \* history: a call was sent to the remote cache after the probe
  visitors,             \* RealTimeMonitor.visitors
  visitor_details,      \* RealTimeMonitor.visitor_details
  handler,              \* the threads inside home(): position and locals
  started,              \* history: dashboard hits begun
  completed,            \* history: the completed hits and the count each obtained
  remote_failures       \* history: hits on which the remote cache failed

auditvars == << account, demo_mode, findings, origin, calls, AWS_AUDIT_AVAILABLE,
                report, returned >>

telemetry == << host, clock, sampler, cpu_history, memory_history, disk_history,
                current_metrics, last_net_io, last_net_time, appended, reader,
                stream >>

visitorvars == << REDIS_AVAILABLE, redis_data, remote_contacted, visitors,
                  visitor_details, handler, started, completed, remote_failures >>

vars == << auditvars, phase, response, telemetry, visitorvars >>

\* ------------------------------------------------------------ the auditor
\* An AuditFinding (aws_audit.py:42-56), without its human strings.
AuditFinding(rtype, rid, text, sev, savings) ==
  [ resource_type |-> rtype, resource_id |-> rid, finding |-> text,
    severity |-> sev, estimated_savings |-> savings ]

\* (datetime.now(timezone.utc) - t).days for a time stamp of that age.
DaysOld(age) == age \div HoursPerDay

\* What the auditor's clients answer: in demo mode (no credentials) every
\* call raises.
CountOnlyCalls ==
  { "list_clusters", "describe_job_queues", "describe_file_systems",
    "list_tables", "describe_cache_clusters", "list_distributions",
    "list_hosted_zones", "get_rest_apis", "list_keys", "describe_alarms",
    "list_stacks", "list_topics", "list_queues", "list_rules" }

Cloud(acct, demo) ==
  IF demo THEN [acct EXCEPT !.failing = CloudCalls \cup CountOnlyCalls] ELSE acct

Raises(c, call) == call \in c.failing

\* --- audit_ec2_resources
Ec2Start ==
  [ ok |-> TRUE, added |-> << >>,
    launch_time |-> [bound |-> FALSE, value |-> 0],
    instances |-> [running |-> 0, stopped |-> 0, total |-> 0, list |-> << >>],
    volumes |-> [attached |-> 0, unattached |-> 0, total |-> 0],
    snapshots |-> [total |-> 0, old |-> 0],
    amis |-> [total |-> 0, unused |-> 0],
    elastic_ips |-> [attached |-> 0, unattached |-> 0, total |-> 0],
    security_groups |-> [total |-> 0, overly_permissive |-> << >>] ]

Failed(st) == [st EXCEPT !.ok = FALSE]

\* Lines 471-473: the age is taken against datetime.now() read in this turn
\* of the loop, 'late' hours after the audit began.
IsIdle(inst, late) ==
  DaysOld(inst.age + late) > IdleDays /\ inst.reason # "Client.UserInitiatedShutdown"

\* One turn of the loop over the instances (lines 462-505).  launch_time is a
\* local of the method: it is assigned only in the 'running' branch (470) and
\* read again when the list entry is built (504).
Ec2Running(st, inst, id, late) ==
  IF ~inst.hasLaunchTime THEN Failed(st)
  ELSE [st EXCEPT !.instances.running = @ + 1,
          !.launch_time = [bound |-> TRUE, value |-> inst.age],
          !.added = IF IsIdle(inst, late)
                    THEN Append(@, AuditFinding("EC2", id, "Potentially idle EC2 instance",
                                                "MEDIUM", IdleSavings))
                    ELSE @]

Ec2Stopped(st, id) ==
  [st EXCEPT !.instances.stopped = @ + 1,
     !.added = Append(@,
        AuditFinding("EC2", id, "Stopped EC2 instance", "LOW", StoppedSavings))]

Ec2ListEntry(st, inst, id) ==
  IF ~st.ok THEN st
  ELSE IF inst.hasLaunchTime /\ ~st.launch_time.bound THEN Failed(st)
  ELSE [st EXCEPT !.instances.list = Append(@,
          [id |-> id, state |-> inst.state,
           launch_time |-> IF inst.hasLaunchTime
                           THEN [set |-> TRUE, value |-> st.launch_time.value]
                           ELSE [set |-> FALSE, value |-> 0]])]

Ec2Branch(st, inst, id, late) ==
  IF inst.state = "running" THEN Ec2Running(st, inst, id, late)
  ELSE IF inst.state = "stopped" THEN Ec2Stopped(st, id)
  ELSE st

Ec2InstanceStep(st, inst, k, drift) ==
  Ec2ListEntry(Ec2Branch([st EXCEPT !.instances.total = @ + 1], inst, << "i", k >>,
                         drift * (k - 1)),
               inst, << "i", k >>)

RECURSIVE Ec2InstanceLoop(_, _, _, _)
Ec2InstanceLoop(st, insts, k, drift) ==
  IF k > Len(insts) \/ ~st.ok THEN st
  ELSE Ec2InstanceLoop(Ec2InstanceStep(st, insts[k], k, drift), insts, k + 1, drift)

Ec2Instances(st, c) ==
  IF Raises(c, "describe_instances") THEN Failed(st)
  ELSE Ec2InstanceLoop(st, c.instances, 1, c.drift)

\* Lines 507-525.
Ec2VolumeStep(st, vol, k) ==
  IF vol.State = "available"
  THEN [st EXCEPT !.volumes.unattached = @ + 1,
          !.added = Append(@,
             AuditFinding("EBS", << "vol", k >>, "Unattached EBS volume", "HIGH",
                          vol.Size * CentsPerGb))]
  ELSE [st EXCEPT !.volumes.attached = @ + 1]

RECURSIVE Ec2VolumeLoop(_, _, _)
Ec2VolumeLoop(st, vols, k) ==
  IF k > Len(vols) THEN st
  ELSE Ec2VolumeLoop(Ec2VolumeStep(st, vols[k], k), vols, k + 1)

Ec2Volumes(st, c) ==
  IF ~st.ok THEN st
  ELSE IF Raises(c, "describe_volumes") THEN Failed(st)
  ELSE Ec2VolumeLoop([st EXCEPT !.volumes.total = Len(c.volumes)], c.volumes, 1)

\* Lines 527-534: old snapshots are counted, nothing is appended.
Ec2Snapshots(st, c) ==
  IF ~st.ok THEN st
  ELSE IF Raises(c, "describe_snapshots") THEN Failed(st)
  ELSE [st EXCEPT !.snapshots.total = Len(c.snapshots),
          !.snapshots.old = Cardinality({ k \in 1..Len(c.snapshots) :
                               c.snapshots[k].age > SnapshotDays * HoursPerDay })]

\* Lines 536-554.
Ec2AddressStep(st, addr, k) ==
  IF ~addr.InstanceId /\ ~addr.NetworkInterfaceId
  THEN [st EXCEPT !.elastic_ips.unattached = @ + 1,
          !.added = Append(@,
             AuditFinding("EC2", << "eipalloc", k >>, "Unattached Elastic IP", "HIGH",
                          EipSavings))]
  ELSE [st EXCEPT !.elastic_ips.attached = @ + 1]

RECURSIVE Ec2AddressLoop(_, _, _)
Ec2AddressLoop(st, addrs, k) ==
  IF k > Len(addrs) THEN st
  ELSE Ec2AddressLoop(Ec2AddressStep(st, addrs[k], k), addrs, k + 1)

Ec2Addresses(st, c) ==
  IF ~st.ok THEN st
  ELSE IF Raises(c, "describe_addresses") THEN Failed(st)
  ELSE Ec2AddressLoop([st EXCEPT !.elastic_ips.total = Len(c.addresses)], c.addresses, 1)

\* The rule test shared by audit_ec2_resources (564-569) and
\* audit_security_groups (1068-1074).
RuleIsRisky(rule) ==
  /\ rule.cidr = "0.0.0.0/0"
  /\ (rule.FromPort \in RiskyPorts \/ rule.ToPort \in RiskyPorts)

\* The findings one security group yields: one per risky rule.
RECURSIVE SgRuleLoop(_, _, _)
SgRuleLoop(rules, id, r) ==
  IF r > Len(rules) THEN << >>
  ELSE (IF RuleIsRisky(rules[r])
        THEN << AuditFinding("SECURITY_GROUP", id, "Overly permissive security group",
                             "HIGH", 0) >>
        ELSE << >>) \o SgRuleLoop(rules, id, r + 1)

RECURSIVE SgLoop(_, _)
SgLoop(sgs, k) ==
  IF k > Len(sgs) THEN << >>
  ELSE SgRuleLoop(sgs[k].rules, << "sg", k >>, 1) \o SgLoop(sgs, k + 1)

\* Lines 556-585.
Ec2WithHits(st, n, hits) ==
  [st EXCEPT !.security_groups.total = n,
     !.security_groups.overly_permissive = [i \in 1..Len(hits) |-> hits[i].resource_id],
     !.added = @ \o hits]

Ec2SecurityGroups(st, c) ==
  IF ~st.ok THEN st
  ELSE IF Raises(c, "describe_security_groups") THEN Failed(st)
  ELSE Ec2WithHits(st, Len(c.sgs), SgLoop(c.sgs, 1))

\* Lines 587-589.
Ec2Amis(st, c) ==
  IF ~st.ok THEN st
  ELSE IF Raises(c, "describe_images") THEN Failed(st)
  ELSE [st EXCEPT !.amis.total = Len(c.amis)]

\* The dict an audit method returns: on an exception only {'error': ...}
\* (every count reads as absent, here 0), and what it appended meanwhile.
Returned(start, st) ==
  [ summary |-> IF st.ok THEN [st EXCEPT !.added = << >>]
                ELSE [start EXCEPT !.ok = FALSE],
    added |-> st.added ]

ClearLocals(st) == [st EXCEPT !.launch_time = Ec2Start.launch_time]

audit_ec2_resources(c) ==
  Returned(Ec2Start,
    ClearLocals(Ec2Amis(Ec2SecurityGroups(Ec2Addresses(Ec2Snapshots(Ec2Volumes(
      Ec2Instances(Ec2Start, c), c), c), c), c), c)))

\* --- audit_lambda_functions (597-643)
LambdaStart == [ok |-> TRUE, added |-> << >>, total |-> 0, unused_functions |-> << >>]

LambdaStep(st, fn, k) ==
  IF ~fn.hasRuntime THEN Failed(st)
  ELSE IF fn.age > LambdaDays * HoursPerDay
  THEN [st EXCEPT !.unused_functions = Append(@, << "fn", k >>),
          !.added = Append(@,
             AuditFinding("LAMBDA", << "fn", k >>, "Unused Lambda function", "MEDIUM", 0))]
  ELSE st

RECURSIVE LambdaLoop(_, _, _)
LambdaLoop(st, fns, k) ==
  IF k > Len(fns) \/ ~st.ok THEN st
  ELSE LambdaLoop(LambdaStep(st, fns[k], k), fns, k + 1)

audit_lambda_functions(c) ==
  Returned(LambdaStart,
    IF Raises(c, "list_functions") THEN Failed(LambdaStart)
    ELSE LambdaLoop([LambdaStart EXCEPT !.total = Len(c.functions)], c.functions, 1))

\* --- audit_s3_buckets (706-793)
S3Start ==
  [ ok |-> TRUE, added |-> << >>, total |-> 0, public_buckets |-> << >>,
    unencrypted_buckets |-> << >>, unversioned_buckets |-> << >>,
    empty_buckets |-> << >>, details |-> << >> ]

\* The inner try of one bucket (729-785): an exception of list_objects_v2 or
\* get_bucket_versioning ends the checks of this bucket only; one of
\* get_bucket_policy_status is swallowed; any one of get_bucket_encryption
\* counts as 'unencrypted'.
S3Empty(st, b, id) ==
  IF b.objects = "none"
  THEN [st EXCEPT !.empty_buckets = Append(@, id),
          !.added = Append(@, AuditFinding("S3", id, "Empty S3 bucket", "LOW", 0))]
  ELSE st

S3Public(st, b, id) ==
  IF b.policy = "public"
  THEN [st EXCEPT !.public_buckets = Append(@, id),
          !.added = Append(@, AuditFinding("S3", id, "Public S3 bucket", "CRITICAL", 0))]
  ELSE st

S3Encryption(st, b, id) ==
  IF b.encryption # "ok"
  THEN [st EXCEPT !.unencrypted_buckets = Append(@, id),
          !.added = Append(@, AuditFinding("S3", id, "Unencrypted S3 bucket", "HIGH", 0))]
  ELSE st

S3Versioning(st, b, id) ==
  IF b.versioning \notin {"Enabled", "error"}
  THEN [st EXCEPT !.unversioned_buckets = Append(@, id)]
  ELSE st

S3BucketChecks(st, b, id) ==
  IF b.objects = "error" THEN st
  ELSE S3Versioning(S3Encryption(S3Public(S3Empty(st, b, id), b, id), b, id), b, id)

S3Detail(st, b, id) ==
  [st EXCEPT !.details = Append(@,
     [name |-> id, error |-> b.objects = "error" \/ b.versioning = "error"])]

S3BucketStep(st, b, k) ==
  IF ~b.hasCreationDate THEN Failed(st)
  ELSE S3Detail(S3BucketChecks(st, b, << "bucket", k >>), b, << "bucket", k >>)

RECURSIVE S3BucketLoop(_, _, _)
S3BucketLoop(st, bs, k) ==
  IF k > Len(bs) \/ ~st.ok THEN st
  ELSE S3BucketLoop(S3BucketStep(st, bs[k], k), bs, k + 1)

audit_s3_buckets(c) ==
  Returned(S3Start,
    IF Raises(c, "list_buckets") THEN Failed(S3Start)
    ELSE S3BucketLoop([S3Start EXCEPT !.total = Len(c.buckets)], c.buckets, 1))

\* --- audit_ebs_volumes (795-829): counts only
CountStart == [ok |-> TRUE, added |-> << >>, total |-> 0]

audit_ebs_volumes(c) ==
  Returned(CountStart,
    IF Raises(c, "describe_volumes") THEN Failed(CountStart)
    ELSE [CountStart EXCEPT !.total = Len(c.volumes)])

\* --- audit_rds_instances (863-928)
RdsStart == [ok |-> TRUE, added |-> << >>, total |-> 0, public |-> 0, stopped |-> 0]

RdsPublic(st, db, id) ==
  IF db.PubliclyAccessible
  THEN [st EXCEPT !.public = @ + 1,
          !.added = Append(@,
             AuditFinding("RDS", id, "Publicly accessible RDS instance", "HIGH", 0))]
  ELSE st

RdsStopped(st, db, id) ==
  IF db.DBInstanceStatus = "stopped"
  THEN [st EXCEPT !.stopped = @ + 1,
          !.added = Append(@, AuditFinding("RDS", id, "Stopped RDS instance", "MEDIUM", 0))]
  ELSE st

RdsStep(st, db, k) == RdsStopped(RdsPublic(st, db, << "db", k >>), db, << "db", k >>)

RECURSIVE RdsLoop(_, _, _)
RdsLoop(st, dbs, k) ==
  IF k > Len(dbs) THEN st
  ELSE RdsLoop(RdsStep(st, dbs[k], k), dbs, k + 1)

audit_rds_instances(c) ==
  Returned(RdsStart,
    IF Raises(c, "describe_db_instances") THEN Failed(RdsStart)
    ELSE RdsLoop([RdsStart EXCEPT !.total = Len(c.dbs)], c.dbs, 1))

\* --- audit_vpc_resources (996-1037)
VpcStart == [ok |-> TRUE, added |-> << >>, vpcs |-> 0]

RECURSIVE VpcLoop(_, _)
VpcLoop(vpcs, k) ==
  IF k > Len(vpcs) THEN << >>
  ELSE (IF vpcs[k].IsDefault
        THEN << AuditFinding("VPC", << "vpc", k >>, "Default VPC in use", "INFO", 0) >>
        ELSE << >>) \o VpcLoop(vpcs, k + 1)

audit_vpc_resources(c) ==
  Returned(VpcStart,
    IF Raises(c, "describe_vpcs") THEN Failed(VpcStart)
    ELSE [VpcStart EXCEPT !.vpcs = Len(c.vpcs), !.added = VpcLoop(c.vpcs, 1)])

\* --- audit_security_groups (1039-1096)
SgStart == [ok |-> TRUE, added |-> << >>, total |-> 0, overly_permissive |-> << >>]

SgWithHits(n, hits) ==
  [SgStart EXCEPT !.total = n,
     !.overly_permissive = [i \in 1..Len(hits) |-> hits[i].resource_id],
     !.added = hits]

audit_security_groups(c) ==
  Returned(SgStart,
    IF Raises(c, "describe_security_groups") \/ Raises(c, "describe_network_interfaces")
    THEN Failed(SgStart)
    ELSE SgWithHits(Len(c.sgs), SgLoop(c.sgs, 1)))

\* --- audit_iam_resources (1165-1234)
IamStart ==
  [ ok |-> TRUE, added |-> << >>,
    users |-> [total |-> 0, with_mfa |-> 0, without_mfa |-> 0, list |-> << >>],
    roles |-> [total |-> 0], policies |-> [total |-> 0],
    access_keys |-> [total |-> 0, old |-> 0] ]

\* Lines 1207-1220: datetime.now() is read again for every key (1208); key j
\* of user u is examined drift * (u + j - 2) hours after the audit began.
RECURSIVE IamKeyLoop(_, _, _, _, _)
IamKeyLoop(st, keys, u, j, drift) ==
  IF j > Len(keys) THEN st
  ELSE IamKeyLoop(
         IF DaysOld(keys[j] + drift * (u + j - 2)) > KeyDays
         THEN [st EXCEPT !.access_keys.old = @ + 1,
                 !.added = Append(@,
                    AuditFinding("IAM", << "key", u, j >>, "Old IAM access key", "MEDIUM", 0))]
         ELSE st,
         keys, u, j + 1, drift)

\* Lines 1182-1220: list_mfa_devices and list_access_keys are not guarded
\* per user.
IamMfa(st, user, id) ==
  IF user.mfa = "yes"
  THEN [st EXCEPT !.users.with_mfa = @ + 1]
  ELSE [st EXCEPT !.users.without_mfa = @ + 1,
          !.added = Append(@, AuditFinding("IAM", id, "IAM user without MFA", "HIGH", 0))]

IamKeys(st, user, k, drift) ==
  IamKeyLoop([st EXCEPT !.access_keys.total = @ + Len(user.keys)], user.keys, k, 1, drift)

IamUserStep(st, user, k, drift) ==
  IF user.mfa = "error"
  THEN Failed([st EXCEPT !.users.list = Append(@, << "user", k >>)])
  ELSE IamKeys(IamMfa([st EXCEPT !.users.list = Append(@, << "user", k >>)],
                      user, << "user", k >>), user, k, drift)

RECURSIVE IamUserLoop(_, _, _, _)
IamUserLoop(st, users, k, drift) ==
  IF k > Len(users) \/ ~st.ok THEN st
  ELSE IamUserLoop(IamUserStep(st, users[k], k, drift), users, k + 1, drift)

IamUsers(st, c) ==
  IF Raises(c, "list_users") THEN Failed(st)
  ELSE IamUserLoop([st EXCEPT !.users.total = Len(c.users)], c.users, 1, c.drift)

IamRoles(st, c) ==
  IF ~st.ok THEN st
  ELSE IF Raises(c, "list_roles") THEN Failed(st)
  ELSE [st EXCEPT !.roles.total = Len(c.roles)]

IamPolicies(st, c) ==
  IF ~st.ok THEN st
  ELSE IF Raises(c, "list_policies") THEN Failed(st)
  ELSE [st EXCEPT !.policies.total = Len(c.policies)]

audit_iam_resources(c) ==
  Returned(IamStart, IamPolicies(IamRoles(IamUsers(IamStart, c), c), c))

\* --- the audits that only count (ecs, batch, efs, dynamodb, elasticache,
\* cloudfront, route53, api_gateway, kms, cloudwatch, cloudformation, sns,
\* sqs, eventbridge): one listing call, a total, no finding.  Of these only
\* the SNS topics of the account are enumerated here.
CountOnlyCall(svc) ==
  CASE svc = "ecs" -> "list_clusters"
    [] svc = "batch" -> "describe_job_queues"
    [] svc = "efs" -> "describe_file_systems"
    [] svc = "dynamodb" -> "list_tables"
    [] svc = "elasticache" -> "describe_cache_clusters"
    [] svc = "cloudfront" -> "list_distributions"
    [] svc = "route53" -> "list_hosted_zones"
    [] svc = "api_gateway" -> "get_rest_apis"
    [] svc = "kms" -> "list_keys"
    [] svc = "cloudwatch" -> "describe_alarms"
    [] svc = "cloudformation" -> "list_stacks"
    [] svc = "sns" -> "list_topics"
    [] svc = "sqs" -> "list_queues"
    [] svc = "eventbridge" -> "list_rules"

audit_count_only(c, svc) ==
  Returned(CountStart,
    IF Raises(c, CountOnlyCall(svc)) THEN Failed(CountStart)
    ELSE [CountStart EXCEPT !.total = IF svc = "sns" THEN Len(c.topics) ELSE 0])

\* audit_code_services, analyze_costs and check_compliance never return an
\* error and append nothing (1343-1378, 1456-1513).
audit_never_fails == Returned(CountStart, CountStart)

\* --- aggregation
RECURSIVE TotalSavings(_)
TotalSavings(fs) ==
  IF fs = << >> THEN 0 ELSE Head(fs).estimated_savings + TotalSavings(Tail(fs))

IsCritical(f) == f.severity \in {"CRITICAL", "HIGH"}

CountCritical(fs) == Cardinality({ i \in 1..Len(fs) : IsCritical(fs[i]) })

\* History only: who appended a finding.
Tagged(added, audit, call) == [i \in 1..Len(added) |-> [audit |-> audit, call |-> call]]

\* Lines 183-219 of get_structured_audit.
TotalResources(e, s, i) ==
    (IF e.ok THEN e.instances.total + e.volumes.total + e.elastic_ips.total
                  + e.snapshots.total + e.amis.total + e.security_groups.total
             ELSE 0)
  + (IF i.ok THEN i.users.total + i.roles.total + i.policies.total ELSE 0)
  + (IF s.ok THEN s.total ELSE 0)

\* Lines 251-303.
Details(e, s, i) ==
  [ ec2 |-> [instances |-> [total |-> e.instances.total,
                            running |-> e.instances.running,
                            stopped |-> e.instances.stopped],
             volumes |-> [attached |-> e.volumes.attached,
                          unattached |-> e.volumes.unattached],
             elastic_ips |-> [attached |-> e.elastic_ips.attached,
                              unattached |-> e.elastic_ips.unattached],
             snapshots |-> [total |-> e.snapshots.total, old |-> e.snapshots.old],
             amis |-> [total |-> e.amis.total, unused |-> e.amis.unused]],
    iam |-> [users |-> [total |-> i.users.total,
                        with_mfa |-> i.users.with_mfa,
                        without_mfa |-> i.users.without_mfa],
             roles |-> [total |-> i.roles.total],
             policies |-> [total |-> i.policies.total],
             access_keys |-> [total |-> i.access_keys.total, old |-> i.access_keys.old]],
    s3 |-> [total |-> s.total,
            empty_buckets |-> s.empty_buckets,
            public_buckets |-> s.public_buckets,
            unencrypted_buckets |-> s.unencrypted_buckets,
            unversioned_buckets |-> s.unversioned_buckets,
            details |-> s.details] ]

\* Lines 221-308: the savings, the findings list and the count are all taken
\* from self.findings as it is after the three audits.
StructuredResult(all, total_savings, e, s, i) ==
  [ kind |-> "structured",
    status |-> "success",
    cost_analysis |-> [total_potential_savings |-> total_savings,
                       estimated_monthly_cost |-> 0],
    summary |-> [total_resources_audited |-> TotalResources(e, s, i),
                 total_findings |-> Len(all),
                 estimated_monthly_savings |-> total_savings],
    details |-> Details(e, s, i),
    findings |-> all ]

StructuredFrom(fs, ec2, s3, iam, call) ==
  [ findings |-> fs \o ec2.added \o s3.added \o iam.added,
    origin |-> Tagged(ec2.added, "ec2", call) \o Tagged(s3.added, "s3", call)
               \o Tagged(iam.added, "iam", call),
    report |-> StructuredResult(fs \o ec2.added \o s3.added \o iam.added,
                                TotalSavings(fs \o ec2.added \o s3.added \o iam.added),
                                ec2.summary, s3.summary, iam.summary),
    returned |-> [svc \in {"ec2", "s3", "iam"} |->
                    IF svc = "ec2" THEN ec2.summary
                    ELSE IF svc = "s3" THEN s3.summary ELSE iam.summary] ]

\* get_structured_audit (175-315) run on an auditor whose findings list is
\* fs.  The audits catch their own exceptions; the except branch (317-329)
\* is Interrupted below.
get_structured_audit(fs, c, call) ==
  StructuredFrom(fs, audit_ec2_resources(c), audit_s3_buckets(c),
                 audit_iam_resources(c), call)

\* _generate_summary (1517-1537).
GenerateSummary(fs, services) ==
  [ total_resources_audited |-> Cardinality(DOMAIN services),
    total_findings |-> Len(fs),
    critical_findings |-> CountCritical(fs),
    estimated_monthly_savings |-> TotalSavings(fs),
    services_with_issues |-> Cardinality({ svc \in DOMAIN services : services[svc].ok }) ]

\* _generate_recommendations (1539-1577): one entry per resource type, in
\* the order the types first occur.
RECURSIVE TypesInOrder(_, _)
TypesInOrder(fs, seen) ==
  IF fs = << >> THEN << >>
  ELSE IF Head(fs).resource_type \in seen THEN TypesInOrder(Tail(fs), seen)
  ELSE << Head(fs).resource_type >>
       \o TypesInOrder(Tail(fs), seen \cup {Head(fs).resource_type})

RecommendationFor(fs, type) ==
  [ resource_type |-> type,
    total_issues |-> Len(SelectSeq(fs, LAMBDA f : f.resource_type = type)),
    critical_issues |-> CountCritical(SelectSeq(fs, LAMBDA f : f.resource_type = type)),
    estimated_savings |-> TotalSavings(SelectSeq(fs, LAMBDA f : f.resource_type = type)) ]

RecommendationsOf(fs, types) ==
  [t \in 1..Len(types) |-> RecommendationFor(fs, types[t])]

GenerateRecommendations(fs) == RecommendationsOf(fs, TypesInOrder(fs, {}))

\* _generate_demo_report (1579-1635): a canned report.
GenerateDemoReport ==
  [ kind |-> "complete", demo |-> TRUE,
    services |-> [svc \in {} |-> 0],
    summary |-> [ total_resources_audited |-> DemoTotalResources,
                  total_findings |-> DemoTotalFindings,
                  critical_findings |-> DemoCriticalFindings,
                  estimated_monthly_savings |-> DemoSavings,
                  services_with_issues |-> 0 ],
    findings |-> << AuditFinding("EC2", << "i-0123456789abcdef0", 0 >>,
                                 "Unattached EBS volume", "HIGH", DemoFindingSavings),
                    AuditFinding("IAM", << "john.doe", 0 >>,
                                 "User without MFA", "CRITICAL", 0) >>,
    recommendations |-> << >> ]

\* The audits of run_complete_audit that can append findings, in call order
\* (373-400); the others are called in between and append nothing.
FindingAudits == << "ec2", "lambda", "s3", "rds", "vpc", "iam", "security_groups" >>

AuditOf(svc, c) ==
  CASE svc = "ec2" -> audit_ec2_resources(c)
    [] svc = "lambda" -> audit_lambda_functions(c)
    [] svc = "s3" -> audit_s3_buckets(c)
    [] svc = "ebs" -> audit_ebs_volumes(c)
    [] svc = "rds" -> audit_rds_instances(c)
    [] svc = "vpc" -> audit_vpc_resources(c)
    [] svc = "iam" -> audit_iam_resources(c)
    [] svc = "security_groups" -> audit_security_groups(c)
    [] svc \in {"code_services", "cost_analysis", "compliance"} -> audit_never_fails
    [] OTHER -> audit_count_only(c, svc)

Joined(a, audit, call, rest) ==
  [ findings |-> a \o rest.findings,
    origin |-> Tagged(a, audit, call) \o rest.origin ]

RECURSIVE AppendedBy(_, _, _)
AppendedBy(c, call, k) ==
  IF k > Len(FindingAudits) THEN [findings |-> << >>, origin |-> << >>]
  ELSE Joined(AuditOf(FindingAudits[k], c).added, FindingAudits[k], call,
              AppendedBy(c, call, k + 1))

\* Lines 357-427.
CompleteResult(all, origins, services) ==
  [ findings |-> all,
    origin |-> origins,
    report |-> [ kind |-> "complete", demo |-> FALSE,
                 services |-> services,
                 summary |-> GenerateSummary(all, services),
                 findings |-> all,
                 recommendations |-> GenerateRecommendations(all) ],
    returned |-> services ]

CompleteFrom(fs, app, c) ==
  CompleteResult(fs \o app.findings, app.origin,
                 [svc \in { ServiceNames[k] : k \in 1..Len(ServiceNames) } |->
                    AuditOf(svc, c).summary])

\* run_complete_audit (345-440) run on an auditor whose findings list is fs.
\* Its except branch (435-440) is not reachable: every audit catches its own
\* exceptions and 421-427 do not raise.
run_complete_audit(fs, c, demo, call) ==
  IF demo
  THEN [ findings |-> fs, origin |-> << >>, report |-> GenerateDemoReport,
         returned |-> [svc \in {} |-> 0] ]
  ELSE CompleteFrom(fs, AppendedBy(c, call, 1), c)

\* ------------------------------------------------------------ telemetry
\* app.py:128-338 (the same class is in monitor.py:10-223).  Percentages are
\* read in thousandths of a percent; a time stamp is the number of the sampler
\* turn that took it.

\* A deque without maxlen, the variant that never evicts.
AppendAll(buf, entry) == Append(buf, entry)

\* deque(maxlen=max_history).append (136-138, 203-205): a full deque drops its
\* leftmost entry.
AppendMax(buf, entry) ==
  IF Len(buf) < max_history THEN Append(buf, entry) ELSE Append(Tail(buf), entry)

\* list(buf)[:n], the variant that returns the oldest entries.
HeadN(buf, n) == SubSeq(buf, 1, IF Len(buf) <= n THEN Len(buf) ELSE n)

\* list(buf)[-n:]
LastN(buf, n) ==
  IF Len(buf) <= n THEN buf ELSE SubSeq(buf, Len(buf) - n + 1, Len(buf))

\* round(x, 2) of a value in thousandths, in hundredths (no reading of the
\* model is a tie).
Round2(x) == (x + 5) \div 10

\* The psutil reads made before anything is written (171-181) and the reads
\* made while the new current_metrics dict is built (213, 221, 222).
EarlyReads == { "cpu_percent", "virtual_memory", "disk_usage", "net_io_counters" }
LateReads == { "cpu_count", "pids", "net_connections" }

Reading(cpu, memory, disk, fails) ==
  [ cpu |-> cpu, memory |-> memory, disk |-> disk, fails |-> fails ]

\* What the host answers turn after turn; a profile repeats for ever.
HostProfiles ==
  { << Reading(80000, 85000, 90000, "none"), Reading(80010, 85010, 90010, "none"),
       Reading(89990, 94990, 50000, "none"), Reading(90000, 95000, 99000, "none") >>,
    << Reading(80004, 20000, 30000, "none"), Reading(95000, 20000, 30000, "net_connections"),
       Reading(10000, 99000, 30000, "cpu_percent"), Reading(97000, 96000, 95000, "none") >>,
    << Reading(30000, 40000, 50000, "virtual_memory"), Reading(85000, 90000, 50000, "pids"),
       Reading(30000, 40000, 91000, "none") >>,
    << Reading(30000, 40000, 50000, "disk_usage") >>,
    << Reading(30000, 40000, 50000, "net_io_counters"), Reading(20000, 40000, 50000, "cpu_count"),
       Reading(20000, 86000, 50000, "none") >> }

ReadingAt(h, turn) == h[((turn - 1) % Len(h)) + 1]

\* psutil.net_io_counters() and time.time() at a turn of the loop.
NetCounters(turn) == [ bytes_sent |-> 2048 * turn, bytes_recv |-> 4096 * turn ]
Now(turn) == METRICS_INTERVAL * turn

\* (current - last) / time_diff / 1024, rounded to hundredths of a KB/s.
Speed(current, last, time_diff) ==
  IF time_diff > 0 THEN (100 * (current - last)) \div (time_diff * BytesPerKb) ELSE 0

\* RealTimeMonitor.__init__ (129-163) with the sampler thread about to begin
\* its first turn.
InitialMetrics ==
  [ cpu |-> 0, memory |-> 0, disk |-> 0, cpu_cores |-> 0,
    network_sent_kbs |-> 0, network_recv_kbs |-> 0 ]

NoStream == [ pc |-> "none", connected |-> FALSE ]
SamplerIdle == [ pc |-> "sleep", sent_speed |-> 0, recv_speed |-> 0 ]
ReaderIdle == [ pc |-> "idle", cpu |-> << >>, memory |-> << >> ]

MonitorInit ==
  /\ clock = 0
  /\ sampler = SamplerIdle
  /\ cpu_history = << >>
  /\ memory_history = << >>
  /\ disk_history = << >>
  /\ current_metrics = InitialMetrics
  /\ last_net_io = NetCounters(0)
  /\ last_net_time = Now(0)
  /\ appended = [ cpu |-> << >>, memory |-> << >>, disk |-> << >> ]
  /\ reader = ReaderIdle
  /\ stream = NoStream

Entry(turn, value) == [ time |-> turn, value |-> value ]

\* One turn of the loop from the top of the try block to the first append
\* (169-203).  A read that raises before anything is written leaves the turn
\* with the except clause (226-227) and time.sleep (229).
SamplerRead(limit) ==
  /\ UNCHANGED << auditvars, phase, response, visitorvars >>
  /\ sampler.pc = "sleep"
  /\ clock < limit
  /\ clock' = clock + 1
  /\ IF ReadingAt(host, clock + 1).fails \in EarlyReads
     THEN UNCHANGED << sampler, cpu_history, last_net_io, last_net_time, appended >>
     ELSE /\ sampler' = [ pc |-> "cpu",
                          sent_speed |-> Speed(NetCounters(clock + 1).bytes_sent,
                                               last_net_io.bytes_sent,
                                               Now(clock + 1) - last_net_time),
                          recv_speed |-> Speed(NetCounters(clock + 1).bytes_recv,
                                               last_net_io.bytes_recv,
                                               Now(clock + 1) - last_net_time) ]
          /\ IF Now(clock + 1) - last_net_time > 0
             THEN /\ last_net_io' = NetCounters(clock + 1)
                  /\ last_net_time' = Now(clock + 1)
             ELSE UNCHANGED << last_net_io, last_net_time >>
          /\ cpu_history' = AppendMax(cpu_history,
                                      Entry(clock + 1, ReadingAt(host, clock + 1).cpu))
          /\ appended' = [appended EXCEPT !.cpu =
                            Append(@, Entry(clock + 1, ReadingAt(host, clock + 1).cpu))]
  /\ UNCHANGED << stream, host, memory_history, disk_history, current_metrics, reader >>

\* self.memory_history.append (204)
SamplerMemory ==
  /\ UNCHANGED << auditvars, phase, response, visitorvars >>
  /\ sampler.pc = "cpu"
  /\ sampler' = [sampler EXCEPT !.pc = "memory"]
  /\ memory_history' = AppendMax(memory_history,
                                 Entry(clock, ReadingAt(host, clock).memory))
  /\ appended' = [appended EXCEPT !.memory =
                    Append(@, Entry(clock, ReadingAt(host, clock).memory))]
  /\ UNCHANGED << stream, host, clock, cpu_history, disk_history, current_metrics,
                  last_net_io, last_net_time, reader >>

\* self.disk_history.append (205)
SamplerDisk ==
  /\ UNCHANGED << auditvars, phase, response, visitorvars >>
  /\ sampler.pc = "memory"
  /\ sampler' = [sampler EXCEPT !.pc = "disk"]
  /\ disk_history' = AppendMax(disk_history,
                               Entry(clock, ReadingAt(host, clock).disk))
  /\ appended' = [appended EXCEPT !.disk =
                    Append(@, Entry(clock, ReadingAt(host, clock).disk))]
  /\ UNCHANGED << stream, host, clock, cpu_history, memory_history, current_metrics,
                  last_net_io, last_net_time, reader >>

\* The dict display of 208-224 is evaluated in full before it is assigned: a
\* read that raises inside it leaves current_metrics as it was.
SamplerPublish ==
  /\ UNCHANGED << auditvars, phase, response, visitorvars >>
  /\ sampler.pc = "disk"
  /\ sampler' = [sampler EXCEPT !.pc = "sleep"]
  /\ current_metrics' =
       IF ReadingAt(host, clock).fails \in LateReads
       THEN current_metrics
       ELSE [ timestamp |-> clock,
              cpu |-> Round2(ReadingAt(host, clock).cpu),
              memory |-> Round2(ReadingAt(host, clock).memory),
              disk |-> Round2(ReadingAt(host, clock).disk),
              cpu_cores |-> 2,
              network_sent_kbs |-> sampler.sent_speed,
              network_recv_kbs |-> sampler.recv_speed ]
  /\ UNCHANGED << stream, host, clock, cpu_history, memory_history, disk_history,
                  last_net_io, last_net_time, appended, reader >>

\* get_history (284-290) takes the three lists one after the other, with the
\* sampler thread free to run in between.
HistoryCpu ==
  /\ phase = "serving"
  /\ UNCHANGED << auditvars, phase, response, visitorvars >>
  /\ reader.pc = "idle"
  /\ reader' = [ pc |-> "cpu", cpu |-> LastN(cpu_history, HistoryWindow),
                 memory |-> << >> ]
  /\ UNCHANGED << stream, host, clock, sampler, cpu_history, memory_history, disk_history,
                  current_metrics, last_net_io, last_net_time, appended >>

HistoryMemory ==
  /\ UNCHANGED << auditvars, phase, response, visitorvars >>
  /\ reader.pc = "cpu"
  /\ reader' = [reader EXCEPT !.pc = "memory",
                              !.memory = LastN(memory_history, HistoryWindow)]
  /\ UNCHANGED << stream, host, clock, sampler, cpu_history, memory_history, disk_history,
                  current_metrics, last_net_io, last_net_time, appended >>

\* The third list is taken and metrics_history (1483-1486) answers.
HistoryDisk ==
  /\ UNCHANGED << auditvars, phase, visitorvars >>
  /\ reader.pc = "memory"
  /\ reader' = ReaderIdle
  /\ response' = [ route |-> "/api/metrics/history", status |-> 200, raised |-> "none",
                   body |-> [ cpu |-> reader.cpu, memory |-> reader.memory,
                              disk |-> LastN(disk_history, HistoryWindow) ] ]
  /\ UNCHANGED << stream, host, clock, sampler, cpu_history, memory_history, disk_history,
                  current_metrics, last_net_io, last_net_time, appended >>

\* get_alerts (306-338)
Alert(level, metric, value, threshold) ==
  [ level |-> level, metric |-> metric, value |-> value, threshold |-> threshold ]

\* A variant that alerts from the threshold on.
get_alerts_from(metrics) ==
     (IF metrics.cpu >= ALERT_CPU_THRESHOLD
      THEN << Alert(IF metrics.cpu < CpuCritical THEN "WARNING" ELSE "CRITICAL",
                    "cpu", metrics.cpu, ALERT_CPU_THRESHOLD) >>
      ELSE << >>)
  \o (IF metrics.memory >= ALERT_MEMORY_THRESHOLD
      THEN << Alert(IF metrics.memory < MemoryCritical THEN "WARNING" ELSE "CRITICAL",
                    "memory", metrics.memory, ALERT_MEMORY_THRESHOLD) >>
      ELSE << >>)
  \o (IF metrics.disk >= ALERT_DISK_THRESHOLD
      THEN << Alert("CRITICAL", "disk", metrics.disk, ALERT_DISK_THRESHOLD) >>
      ELSE << >>)

get_alerts(metrics) ==
     (IF metrics.cpu > ALERT_CPU_THRESHOLD
      THEN << Alert(IF metrics.cpu < CpuCritical THEN "WARNING" ELSE "CRITICAL",
                    "cpu", metrics.cpu, ALERT_CPU_THRESHOLD) >>
      ELSE << >>)
  \o (IF metrics.memory > ALERT_MEMORY_THRESHOLD
      THEN << Alert(IF metrics.memory < MemoryCritical THEN "WARNING" ELSE "CRITICAL",
                    "memory", metrics.memory, ALERT_MEMORY_THRESHOLD) >>
      ELSE << >>)
  \o (IF metrics.disk > ALERT_DISK_THRESHOLD
      THEN << Alert("CRITICAL", "disk", metrics.disk, ALERT_DISK_THRESHOLD) >>
      ELSE << >>)

\* /api/system/alerts (1508-1521)
system_alerts ==
  /\ phase = "serving"
  /\ UNCHANGED << auditvars, phase, visitorvars >>
  /\ response' = [ route |-> "/api/system/alerts", status |-> 200, raised |-> "none",
                   body |-> [ alerts |-> get_alerts(current_metrics),
                              count |-> Len(get_alerts(current_metrics)),
                              thresholds |-> [ cpu |-> ALERT_CPU_THRESHOLD,
                                               memory |-> ALERT_MEMORY_THRESHOLD,
                                               disk |-> ALERT_DISK_THRESHOLD ] ] ]
  /\ UNCHANGED telemetry

\* _get_default_metrics (259-282), what get_metrics answers when one of its
\* own reads raises (255-257).
DefaultMetrics(turn) ==
  [ timestamp |-> turn, cpu |-> 0, memory |-> 0, disk |-> 0, cpu_cores |-> 0,
    network_sent_kbs |-> 0, network_recv_kbs |-> 0 ]

\* A variant that calls every alert critical.
HealthStatusAny(alerts) == IF Len(alerts) > 0 THEN "critical" ELSE "healthy"

\* The status of /health (1529-1533)
HealthStatus(alerts) ==
  IF \E i \in 1..Len(alerts) : alerts[i].level = "CRITICAL" THEN "critical"
  ELSE IF Len(alerts) > 0 THEN "degraded" ELSE "healthy"

\* health() calls monitor.get_metrics() (1526): a copy of current_metrics, or
\* the defaults.
HealthMetrics ==
  /\ phase = "serving"
  /\ UNCHANGED << auditvars, phase, response, visitorvars >>
  /\ reader.pc = "idle"
  /\ \E ok \in BOOLEAN :
       reader' = [ pc |-> "health", cpu |-> << >>, memory |-> << >>,
                   metrics |-> IF ok THEN current_metrics ELSE DefaultMetrics(clock) ]
  /\ UNCHANGED << stream, host, clock, sampler, cpu_history, memory_history, disk_history,
                  current_metrics, last_net_io, last_net_time, appended >>

\* health() calls monitor.get_alerts() (1527), which reads current_metrics
\* again, and answers (1529-1552).
health ==
  /\ UNCHANGED << auditvars, phase, visitorvars >>
  /\ reader.pc = "health"
  /\ reader' = ReaderIdle
  /\ response' = [ route |-> "/health", status |-> 200, raised |-> "none",
                   body |-> [ status |-> HealthStatus(get_alerts(current_metrics)),
                              metrics |-> reader.metrics,
                              checks |-> [ cpu_ok |-> reader.metrics.cpu < ALERT_CPU_THRESHOLD,
                                           memory_ok |-> reader.metrics.memory
                                                           < ALERT_MEMORY_THRESHOLD,
                                           disk_ok |-> reader.metrics.disk < ALERT_DISK_THRESHOLD,
                                           redis_connected |-> REDIS_AVAILABLE,
                                           app_running |-> TRUE,
                                           aws_audit_available |-> AWS_AUDIT_AVAILABLE ],
                              alerts |-> get_alerts(current_metrics) ] ]
  /\ UNCHANGED << stream, host, clock, sampler, cpu_history, memory_history, disk_history,
                  current_metrics, last_net_io, last_net_time, appended >>

\* metrics_live (1488-1506) hands the generator to the WSGI server.
metrics_live ==
  /\ phase = "serving"
  /\ stream.pc = "none"
  /\ stream' = [ pc |-> "run", connected |-> TRUE ]
  /\ UNCHANGED << host, clock, sampler, cpu_history, memory_history, disk_history,
                  current_metrics, last_net_io, last_net_time, appended, reader >>
  /\ UNCHANGED << auditvars, phase, response, visitorvars >>

\* One turn of generate() up to its yield (1492-1495): the event is handed
\* over whether or not the client is still there.
StreamYield ==
  /\ stream.pc = "run"
  /\ stream' = [stream EXCEPT !.pc = "yield"]
  /\ response' = [ route |-> "/api/metrics/live", status |-> 200, raised |-> "none",
                   to_client |-> stream.connected,
                   body |-> [ metrics |-> current_metrics,
                              redis_connected |-> REDIS_AVAILABLE ] ]
  /\ UNCHANGED << host, clock, sampler, cpu_history, memory_history, disk_history,
                  current_metrics, last_net_io, last_net_time, appended, reader >>
  /\ UNCHANGED << auditvars, phase, visitorvars >>

\* The server asks for the next event: time.sleep(3) and the next turn of
\* while True (1492, 1496).
StreamResume ==
  /\ stream.pc = "yield"
  /\ stream' = [stream EXCEPT !.pc = "run"]
  /\ UNCHANGED << host, clock, sampler, cpu_history, memory_history, disk_history,
                  current_metrics, last_net_io, last_net_time, appended, reader >>
  /\ UNCHANGED << auditvars, phase, response, visitorvars >>

\* The client goes away.  Nothing in generate() reads the connection.
ClientDisconnects ==
  /\ stream.pc # "none"
  /\ stream.connected
  /\ stream' = [stream EXCEPT !.connected = FALSE]
  /\ UNCHANGED << host, clock, sampler, cpu_history, memory_history, disk_history,
                  current_metrics, last_net_io, last_net_time, appended, reader >>
  /\ UNCHANGED << auditvars, phase, response, visitorvars >>

\* The only way out of while True: the WSGI server that iterates the
\* Response (1498-1506) closes the suspended generator, which it may do when
\* writing an event to the departed client fails.
StreamClosed ==
  /\ stream.pc = "yield"
  /\ ~stream.connected
  /\ stream' = NoStream
  /\ UNCHANGED << host, clock, sampler, cpu_history, memory_history, disk_history,
                  current_metrics, last_net_io, last_net_time, appended, reader >>
  /\ UNCHANGED << auditvars, phase, response, visitorvars >>

\* ------------------------------------------------------------ visitors
\* app.py:343-411, 292-304, 1457-1481, 1619-1636.  A hit is named by the
\* ordinal of its beginning, which stands for its time stamp, address and
\* user agent.  redis_data holds the keys of whichever object redis_client is:
\* the remote cache when REDIS_AVAILABLE, the MemoryStore otherwise.
Threads == { 1, 2 }

\* json.dumps and json.loads of a visit record (392, 1625)
json_dumps(rec) == << "json", rec >>
json_loads(text) == text[2]

HandlerIdle ==
  [ pc |-> "idle", hit |-> 0, seen |-> 0, count |-> 0, tmp |-> 0, fallback |-> FALSE ]

VisitorInit ==
  /\ REDIS_AVAILABLE = FALSE
  /\ redis_data = [ visitor_count |-> 0, recent_visits |-> << >> ]
  /\ remote_contacted = FALSE
  /\ visitors = 0
  /\ visitor_details = << >>
  /\ handler = [ t \in Threads |-> HandlerIdle ]
  /\ started = [ t \in Threads |-> 0 ]
  /\ completed = << >>
  /\ remote_failures = 0

\* data[start:end+1] of MemoryStore.lrange and ltrim (374-380), LRANGE and
\* LTRIM of the remote cache, for start = 0.
Slice(list, end) == SubSeq(list, 1, IF Len(list) <= end THEN Len(list) ELSE end + 1)

\* The probe of 344-357: the only place where REDIS_AVAILABLE is assigned.
redis_probe ==
  /\ phase = "boot"
  /\ phase' = "serving"
  /\ \E ok \in BOOLEAN : REDIS_AVAILABLE' = ok
  /\ UNCHANGED << redis_data, remote_contacted, visitors, visitor_details, handler,
                  started, completed, remote_failures >>
  /\ UNCHANGED << auditvars, response, telemetry >>

\* A call on the remote cache raises: the bare except of 398-400 takes over.
RemoteFails(t) ==
  /\ REDIS_AVAILABLE
  /\ remote_failures < MaxRemoteFailures
  /\ remote_failures' = remote_failures + 1
  /\ remote_contacted' = TRUE
  /\ UNCHANGED redis_data

\* home() is entered (1460) and redis_client.incr runs (386): one command on
\* the remote cache, the read of MemoryStore.incr's right-hand side (363)
\* otherwise.
HitBegin(t, limit) ==
  /\ phase = "serving"
  /\ handler[t].pc = "idle"
  /\ started[1] + started[2] < limit
  /\ t = 2 => started[2] < MaxOverlaps
  /\ started' = [started EXCEPT ![t] = @ + 1]
  /\ \/ /\ RemoteFails(t)
        /\ handler' = [handler EXCEPT ![t] =
                         [ pc |-> "monitor", hit |-> started[1] + started[2] + 1,
                           seen |-> Len(completed), count |-> 0, tmp |-> 0,
                           fallback |-> TRUE ]]
     \/ /\ REDIS_AVAILABLE
        /\ remote_contacted' = TRUE
        /\ redis_data' = [redis_data EXCEPT !.visitor_count = @ + 1]
        /\ handler' = [handler EXCEPT ![t] =
                         [ pc |-> "push", hit |-> started[1] + started[2] + 1,
                           seen |-> Len(completed), count |-> redis_data.visitor_count + 1,
                           tmp |-> 0, fallback |-> FALSE ]]
        /\ UNCHANGED remote_failures
     \/ /\ ~REDIS_AVAILABLE
        /\ handler' = [handler EXCEPT ![t] =
                         [ pc |-> "incr", hit |-> started[1] + started[2] + 1,
                           seen |-> Len(completed), count |-> 0,
                           tmp |-> redis_data.visitor_count, fallback |-> FALSE ]]
        /\ UNCHANGED << redis_data, remote_contacted, remote_failures >>
  /\ UNCHANGED << REDIS_AVAILABLE, visitors, visitor_details, completed >>
  /\ UNCHANGED << auditvars, phase, response, telemetry >>

\* MemoryStore.incr stores the sum and returns what it reads back (363-364).
HitIncrStore(t) ==
  /\ handler[t].pc = "incr"
  /\ redis_data' = [redis_data EXCEPT !.visitor_count = handler[t].tmp + 1]
  /\ handler' = [handler EXCEPT ![t].pc = "push", ![t].count = handler[t].tmp + 1]
  /\ UNCHANGED << REDIS_AVAILABLE, remote_contacted, visitors, visitor_details,
                  started, completed, remote_failures >>
  /\ UNCHANGED << auditvars, phase, response, telemetry >>

\* redis_client.lpush('recent_visits', json.dumps(visit_info)) (392, 369-372)
HitPush(t) ==
  /\ handler[t].pc = "push"
  /\ \/ /\ RemoteFails(t)
        /\ handler' = [handler EXCEPT ![t].pc = "monitor", ![t].fallback = TRUE]
     \/ /\ redis_data' = [redis_data EXCEPT !.recent_visits =
                            << json_dumps([hit |-> handler[t].hit]) >> \o @]
        /\ remote_contacted' = (remote_contacted \/ REDIS_AVAILABLE)
        /\ handler' = [handler EXCEPT ![t].pc = "trim"]
        /\ UNCHANGED remote_failures
  /\ UNCHANGED << REDIS_AVAILABLE, visitors, visitor_details, started, completed >>
  /\ UNCHANGED << auditvars, phase, response, telemetry >>

\* redis_client.ltrim('recent_visits', 0, 49) (393, 378-380)
HitTrim(t) ==
  /\ handler[t].pc = "trim"
  /\ \/ /\ RemoteFails(t)
        /\ handler' = [handler EXCEPT ![t].pc = "monitor", ![t].fallback = TRUE]
     \/ /\ redis_data' = [redis_data EXCEPT !.recent_visits = Slice(@, TrimEnd)]
        /\ remote_contacted' = (remote_contacted \/ REDIS_AVAILABLE)
        /\ handler' = [handler EXCEPT ![t].pc = "monitor"]
        /\ UNCHANGED remote_failures
  /\ UNCHANGED << REDIS_AVAILABLE, visitors, visitor_details, started, completed >>
  /\ UNCHANGED << auditvars, phase, response, telemetry >>

\* monitor.increment_visitor (396 or 400) reads self.visitors for the += of
\* 294.
MonitorRead(t) ==
  /\ handler[t].pc = "monitor"
  /\ handler' = [handler EXCEPT ![t].pc = "record", ![t].tmp = visitors]
  /\ UNCHANGED << REDIS_AVAILABLE, redis_data, remote_contacted, visitors,
                  visitor_details, started, completed, remote_failures >>
  /\ UNCHANGED << auditvars, phase, response, telemetry >>

\* The list kept by increment_visitor (301-303)
Kept(details) == IF Len(details) > VisitsKept THEN Tail(details) ELSE details

\* A variant that reads the status from a ping whatever the probe said.
PingStatuses == { "Connected", "Disconnected" }

\* get_redis_status (403-411): the remote cache is pinged only when the probe
\* succeeded.
RedisStatuses == IF REDIS_AVAILABLE THEN { "Connected", "Disconnected" } ELSE { "In-Memory" }

\* increment_visitor stores the sum, records the visit and returns
\* self.visitors (294-304); increment_visitor_counter returns the cache's count
\* from the try block and the monitor's from the except clause; home() renders
\* the page with it and with get_redis_status() (1462-1473).
MonitorRecord(t) ==
  /\ handler[t].pc = "record"
  /\ visitors' = handler[t].tmp + 1
  /\ visitor_details' = Kept(Append(visitor_details,
                                    [ hit |-> handler[t].hit,
                                      visitor_number |-> handler[t].tmp + 1 ]))
  /\ completed' = Append(completed, [ hit |-> handler[t].hit, seen |-> handler[t].seen,
                            count |-> IF handler[t].fallback THEN handler[t].tmp + 1
                                      ELSE handler[t].count ])
  /\ handler' = [handler EXCEPT ![t] = HandlerIdle]
  /\ \E status \in RedisStatuses :
       response' = [ route |-> "/", status |-> 200, raised |-> "none",
                     body |-> [ visitor_count |-> IF handler[t].fallback
                                                  THEN handler[t].tmp + 1
                                                  ELSE handler[t].count,
                                redis_status |-> status ] ]
  /\ remote_contacted' = (remote_contacted \/ REDIS_AVAILABLE)
  /\ UNCHANGED << REDIS_AVAILABLE, redis_data, started, remote_failures >>
  /\ UNCHANGED << auditvars, phase, telemetry >>

\* /api/real-metrics (1475-1481), the two flags of its body.
real_metrics ==
  /\ phase = "serving"
  /\ response' = [ route |-> "/api/real-metrics", status |-> 200, raised |-> "none",
                   body |-> [ redis_connected |-> REDIS_AVAILABLE,
                              aws_audit_available |-> AWS_AUDIT_AVAILABLE ] ]
  /\ UNCHANGED << auditvars, phase, telemetry, visitorvars >>

\* monitor.visitor_details[:10] (1628, 1635)
FirstN(list, n) == SubSeq(list, 1, IF Len(list) <= n THEN Len(list) ELSE n)

Recent(texts) == [ i \in 1 .. Len(texts) |-> json_loads(texts[i]) ]

\* /api/visitors (1619-1636); a call on the remote cache that raises leads to
\* the except clause.
api_visitors ==
  /\ phase = "serving"
  /\ remote_contacted' = (remote_contacted \/ REDIS_AVAILABLE)
  /\ \E raises \in { FALSE, REDIS_AVAILABLE } :
       response' = [ route |-> "/api/visitors", status |-> 200,
                     raised |-> IF raises THEN "handler" ELSE "none",
                     body |-> [ total |-> IF raises THEN 0 ELSE redis_data.visitor_count,
                                recent |-> IF raises THEN << >>
                                           ELSE Recent(Slice(redis_data.recent_visits,
                                                             RecentEnd)),
                                flask_visitors |-> visitors,
                                flask_recent |-> FirstN(visitor_details, FlaskRecent) ] ]
  /\ UNCHANGED << REDIS_AVAILABLE, redis_data, visitors, visitor_details, handler,
                  started, completed, remote_failures >>
  /\ UNCHANGED << auditvars, phase, telemetry >>

\* ------------------------------------------------------------ behaviour
NoReport == [kind |-> "none"]
\* raised is history: the exception met while the request was served.
NoResponse == [route |-> "none", status |-> 0, raised |-> "none"]

\* The auditor has been constructed (65-83, 85-171): demo_mode tells whether
\* _init_clients reached the account.  Without credentials no answer of the
\* account is ever seen, so one account stands for all.
AuditInit(lists, drifts) ==
  /\ demo_mode \in BOOLEAN
  /\ \E items \in lists, d \in drifts :
        account = IF demo_mode THEN EmptyAccount
                  ELSE [AccountOf(items) EXCEPT !.drift = d]
  /\ findings = << >>
  /\ origin = << >>
  /\ calls = 0
  /\ AWS_AUDIT_AVAILABLE = FALSE
  /\ report = NoReport
  /\ returned = [svc \in {} |-> 0]
  /\ response = NoResponse

\* A host on which every read succeeds; the sampler stands still where the
\* audit is examined.
QuietHost == << Reading(0, 0, 0, "none") >>

Init ==
  /\ AuditInit(ItemLists, {0})
  /\ phase = "boot"
  /\ host = QuietHost
  /\ MonitorInit
  /\ VisitorInit

\* Where a request meets an exception that is not a failure of one service:
\* nowhere, inside the try of get_structured_audit (177-315, after the three
\* audits have returned), or in the route's own try after the audit returned.
Faults == { "none", "audit", "handler" }

\* The dict of get_structured_audit's except branch (317-329).
StructuredFailure ==
  [ kind |-> "failed", error |-> "exception", status |-> "failed",
    summary |-> [total_resources_audited |-> 0, total_findings |-> 0,
                 estimated_monthly_savings |-> 0] ]

\* What a call of get_structured_audit gives when the exception is raised
\* inside it: the audits have appended, the except branch answers.
Interrupted(r, fault) ==
  IF fault = "audit" THEN [r EXCEPT !.report = StructuredFailure] ELSE r

\* The effect of one audit call on the auditor.
Audited(r) ==
  /\ findings' = r.findings
  /\ origin' = origin \o r.origin
  /\ report' = r.report
  /\ returned' = r.returned
  /\ calls' = calls + 1

\* The self test's fall-back (app.py:103-112): the structured audit r answered
\* with an 'error' key, so run_complete_audit is called on the same auditor.
FellBack(r, second) ==
  /\ findings' = second.findings
  /\ origin' = origin \o r.origin \o second.origin
  /\ report' = second.report
  /\ returned' = second.returned
  /\ calls' = calls + 2

SelfTestFallback(r) ==
  FellBack(r, run_complete_audit(r.findings, Cloud(account, demo_mode), demo_mode,
                                 calls + 2))

\* app.py:43-123.  The STS probe of the application decides the flag; when it
\* succeeds the start-up block runs get_structured_audit once as a self test
\* and, when that answers with an 'error' key, run_complete_audit.
Startup ==
  /\ phase = "boot"
  /\ UNCHANGED << telemetry, visitorvars >>
  /\ phase' = "serving"
  /\ \E stsOk \in BOOLEAN, fault \in Faults \ {"handler"} :
       IF stsOk
       THEN /\ AWS_AUDIT_AVAILABLE' = TRUE
            /\ IF fault = "none"
               THEN /\ calls < MaxCalls
                    /\ Audited(get_structured_audit(findings, Cloud(account, demo_mode),
                                                    calls + 1))
               ELSE /\ calls + 1 < MaxCalls
                    /\ SelfTestFallback(
                         Interrupted(get_structured_audit(findings,
                                        Cloud(account, demo_mode), calls + 1), fault))
            /\ UNCHANGED << account, demo_mode, response >>
       ELSE /\ fault = "none"
            /\ AWS_AUDIT_AVAILABLE' = FALSE
            /\ UNCHANGED << account, demo_mode, findings, origin, calls, report,
                            returned, response >>

\* A variant that answers 500 where the flag is off.
Unavailable500(route) ==
  /\ ~AWS_AUDIT_AVAILABLE
  /\ UNCHANGED << telemetry, visitorvars >>
  /\ response' = [route |-> route, status |-> 500, raised |-> "none",
                  body |-> [error |-> "AWS Audit module not available",
                            message |-> "check configuration"]]
  /\ UNCHANGED << account, demo_mode, findings, origin, calls, phase,
                  AWS_AUDIT_AVAILABLE, report, returned >>

Unavailable(route) ==
  /\ ~AWS_AUDIT_AVAILABLE
  /\ UNCHANGED << telemetry, visitorvars >>
  /\ response' = [route |-> route, status |-> 503, raised |-> "none",
                  body |-> [error |-> "AWS Audit module not available",
                            message |-> "check configuration"]]
  /\ UNCHANGED << account, demo_mode, findings, origin, calls, phase,
                  AWS_AUDIT_AVAILABLE, report, returned >>

\* The body of the except branch of /api/aws/audit and
\* /api/aws/audit/structured (1673-1678, 1692-1699).
Failure500(route) ==
  [ route |-> route, status |-> 500, raised |-> "handler",
    body |-> [error |-> "AWS audit failed", message |-> "exception",
              timestamp |-> "now"] ]

\* The body shared by /api/aws/audit and /api/aws/audit/structured: whatever
\* get_structured_audit returns is sent with status 200.
ServeStructured(route) ==
  /\ phase = "serving"
  /\ \/ Unavailable(route)
     \/ /\ AWS_AUDIT_AVAILABLE
        /\ calls < MaxCalls
        /\ \E fault \in Faults :
             /\ Audited(Interrupted(get_structured_audit(findings,
                                       Cloud(account, demo_mode), calls + 1), fault))
             /\ response' = IF fault = "handler" THEN Failure500(route)
                            ELSE [route |-> route, status |-> 200, raised |-> fault,
                                  body |-> report']
        /\ UNCHANGED << account, demo_mode, phase, AWS_AUDIT_AVAILABLE >>
        /\ UNCHANGED << telemetry, visitorvars >>

\* app.py:1660-1678.
aws_audit_endpoint == ServeStructured("/api/aws/audit")

\* app.py:1680-1699.
aws_audit_structured == ServeStructured("/api/aws/audit/structured")

\* The projection of app.py:1712-1758.
QuickItems(ec2_data) ==
  (IF ec2_data.volumes.unattached > 0
   THEN << [type |-> "unattached_ebs", count |-> ec2_data.volumes.unattached,
            cost_per_month |-> ec2_data.volumes.unattached * QuickEbsCost] >>
   ELSE << >>)
  \o (IF ec2_data.elastic_ips.unattached > 0
      THEN << [type |-> "unattached_eip", count |-> ec2_data.elastic_ips.unattached,
               cost_per_month |-> ec2_data.elastic_ips.unattached * QuickEipCost] >>
      ELSE << >>)
  \o (IF ec2_data.instances.stopped > 0
      THEN << [type |-> "stopped_instances", count |-> ec2_data.instances.stopped,
               cost_per_month |-> ec2_data.instances.stopped * QuickStoppedCost] >>
      ELSE << >>)

RECURSIVE SumCost(_)
SumCost(items) ==
  IF items = << >> THEN 0 ELSE Head(items).cost_per_month + SumCost(Tail(items))

QuickFrom(items) ==
  [ critical_items |-> items,
    estimated_monthly_cost |-> SumCost(items),
    aws_audit_available |-> TRUE ]

\* Lines 1714-1761: without a 'details' key nothing is added.
QuickResult(result) ==
  IF result.kind = "structured" THEN QuickFrom(QuickItems(result.details.ec2))
  ELSE QuickFrom(<< >>)

\* The body of the except branch (1764-1772); it is returned without a status
\* code, that is with 200.
QuickFailure ==
  [ error |-> "AWS quick audit failed", message |-> "exception",
    estimated_monthly_cost |-> 0, critical_items |-> << >>,
    aws_audit_available |-> TRUE, timestamp |-> "now" ]

\* app.py:1701-1772.
aws_audit_quick ==
  /\ phase = "serving"
  /\ \/ Unavailable("/api/aws/audit/quick")
     \/ /\ AWS_AUDIT_AVAILABLE
        /\ calls < MaxCalls
        /\ \E fault \in Faults :
             /\ Audited(Interrupted(get_structured_audit(findings,
                                       Cloud(account, demo_mode), calls + 1), fault))
             /\ response' = [route |-> "/api/aws/audit/quick", status |-> 200,
                             raised |-> fault,
                             body |-> IF fault = "handler" THEN QuickFailure
                                      ELSE QuickResult(report')]
        /\ UNCHANGED << account, demo_mode, phase, AWS_AUDIT_AVAILABLE >>
        /\ UNCHANGED << telemetry, visitorvars >>

\* A direct call of run_complete_audit on the auditor (aws_audit.py:1736, or
\* any importer of the class).
RunCompleteAudit ==
  /\ calls < MaxCalls
  /\ UNCHANGED << telemetry, visitorvars >>
  /\ Audited(run_complete_audit(findings, Cloud(account, demo_mode), demo_mode, calls + 1))
  /\ UNCHANGED << account, demo_mode, phase, AWS_AUDIT_AVAILABLE, response >>

Next ==
  \/ Startup
  \/ aws_audit_endpoint
  \/ aws_audit_structured
  \/ aws_audit_quick
  \/ RunCompleteAudit

Spec == Init /\ [][Next]_vars

\* The start-up block and the three audit routes on the small accounts.
RouteInit ==
  /\ AuditInit({ items \in ItemLists : Len(items) <= MaxRouteItems }, {0})
  /\ phase = "boot"
  /\ host = QuietHost
  /\ MonitorInit
  /\ VisitorInit

RouteNext ==
  \/ Startup
  \/ aws_audit_endpoint
  \/ aws_audit_structured
  \/ aws_audit_quick

RouteSpec == RouteInit /\ [][RouteNext]_vars

\* An audit whose wall clock moves on while the loops run: datetime.now() is
\* read once per instance (471) and once per key (1208), MaxDrift hours at
\* most passing between two reads.  The resources were launched or created 7
\* days 23 hours and 90 days 23 hours before the audit begins.
MaxDrift == 1

BoundaryInstance ==
  [state |-> "running", age |-> 191, reason |-> "", hasLaunchTime |-> TRUE]

BoundaryUser == [mfa |-> "yes", keys |-> << 2183, 2183 >>]

ClockItems ==
  { << KindIndex("instances"), BoundaryInstance >>,
    << KindIndex("instances"), [BoundaryInstance EXCEPT !.age = 240] >>,
    << KindIndex("users"), BoundaryUser >> }

ClockLists ==
  { s \in UNION { [1..n -> ClockItems] : n \in 0..MaxItems } :
      \A i \in 1..(Len(s) - 1) : s[i][1] <= s[i + 1][1] }

ClockInit ==
  /\ AuditInit(ClockLists, 0..MaxDrift)
  /\ phase = "boot"
  /\ host = QuietHost
  /\ MonitorInit
  /\ VisitorInit

ClockSpec == ClockInit /\ [][Next]_vars

\* ------------------------------------------------- audits in two threads
\* app.run(threaded=True) (app.py:1794-1800) serves every request in a thread
\* of its own, and all of them call the one module-level auditor
\* (app.py:1680-1699).  get_structured_audit (aws_audit.py:175-315) is followed
\* statement by statement: the three audits append to self.findings, then the
\* list is read three times (223, 228, 248).  Each thread serves one request;
\* overlap records that the other request was running meanwhile.
Running(h) == h.pc \notin { "idle", "done" }

AuditThread(call, overlap) ==
  [ pc |-> "ec2", call |-> call, overlap |-> overlap,
    ec2 |-> Ec2Start, s3 |-> S3Start, iam |-> IamStart,
    total_savings |-> 0, findings_list |-> << >>, list_origin |-> << >>,
    report |-> NoReport ]

ThreadFrame ==
  UNCHANGED << REDIS_AVAILABLE, redis_data, remote_contacted, visitors,
               visitor_details, started, completed, remote_failures >>

\* app.py:1683-1691: the request is admitted and calls the auditor.
AuditBegin(t) ==
  /\ phase = "serving"
  /\ AWS_AUDIT_AVAILABLE
  /\ handler[t].pc = "idle"
  /\ calls' = calls + 1
  /\ handler' = [ u \in Threads |->
                    IF u = t
                    THEN AuditThread(calls + 1, \E v \in Threads \ {t} : Running(handler[v]))
                    ELSE IF Running(handler[u]) THEN [handler[u] EXCEPT !.overlap = TRUE]
                    ELSE handler[u] ]
  /\ UNCHANGED << account, demo_mode, findings, origin, AWS_AUDIT_AVAILABLE, report,
                  returned, phase, response >>
  /\ UNCHANGED telemetry
  /\ ThreadFrame

\* One of the three audits (179-181) appends its findings to the shared list.
AuditStep(t, svc, next) ==
  /\ handler[t].pc = svc
  /\ findings' = findings \o AuditOf(svc, Cloud(account, demo_mode)).added
  /\ origin' = origin \o Tagged(AuditOf(svc, Cloud(account, demo_mode)).added, svc,
                                handler[t].call)
  /\ handler' = [handler EXCEPT ![t] =
                   [@ EXCEPT !.pc = next,
                             ![svc] = AuditOf(svc, Cloud(account, demo_mode)).summary]]
  /\ UNCHANGED << account, demo_mode, calls, AWS_AUDIT_AVAILABLE, report, returned,
                  phase, response >>
  /\ UNCHANGED telemetry
  /\ ThreadFrame

AuditEc2(t) == AuditStep(t, "ec2", "s3")
AuditS3(t) == AuditStep(t, "s3", "iam")
AuditIam(t) == AuditStep(t, "iam", "savings")

\* Lines 222-224: the savings are summed over self.findings.
AuditSavings(t) ==
  /\ handler[t].pc = "savings"
  /\ handler' = [handler EXCEPT ![t] =
                   [@ EXCEPT !.pc = "list", !.total_savings = TotalSavings(findings)]]
  /\ UNCHANGED << auditvars, phase, response >>
  /\ UNCHANGED telemetry
  /\ ThreadFrame

\* Lines 227-236: the findings list of the report is copied from
\* self.findings.
AuditList(t) ==
  /\ handler[t].pc = "list"
  /\ handler' = [handler EXCEPT ![t] =
                   [@ EXCEPT !.pc = "result", !.findings_list = findings,
                             !.list_origin = origin]]
  /\ UNCHANGED << auditvars, phase, response >>
  /\ UNCHANGED telemetry
  /\ ThreadFrame

\* Lines 238-315 and app.py:1692: the dict is built, total_findings being
\* len(self.findings) as it is now (248), and sent with status 200.
ThreadResult(h, fs) ==
  [ StructuredResult(h.findings_list, h.total_savings, h.ec2, h.s3, h.iam)
      EXCEPT !.summary.total_findings = Len(fs) ]

AuditReturn(t) ==
  /\ handler[t].pc = "result"
  /\ report' = ThreadResult(handler[t], findings)
  /\ returned' = [svc \in {"ec2", "s3", "iam"} |-> handler[t][svc]]
  /\ response' = [route |-> "/api/aws/audit/structured", status |-> 200,
                  raised |-> "none", body |-> ThreadResult(handler[t], findings)]
  /\ handler' = [handler EXCEPT ![t] =
                   [@ EXCEPT !.pc = "done", !.report = ThreadResult(handler[t], findings)]]
  /\ UNCHANGED << account, demo_mode, findings, origin, calls, AWS_AUDIT_AVAILABLE,
                  phase >>
  /\ UNCHANGED telemetry
  /\ ThreadFrame

ThreadedNext ==
  \/ Startup
  \/ \E t \in Threads :
       \/ AuditBegin(t)
       \/ AuditEc2(t)
       \/ AuditS3(t)
       \/ AuditIam(t)
       \/ AuditSavings(t)
       \/ AuditList(t)
       \/ AuditReturn(t)

ThreadedSpec == RouteInit /\ [][ThreadedNext]_vars

\* The process without credentials once it serves requests (51-53 and 352
\* both failed), on any of the hosts, with the sampler thread and a reader of
\* the history.
MonitorStart ==
  /\ AuditInit({ << >> }, {0})
  /\ demo_mode
  /\ phase = "serving"
  /\ host \in HostProfiles
  /\ MonitorInit
  /\ VisitorInit

MonitorNext ==
  \/ SamplerRead(MaxSamples)
  \/ SamplerMemory
  \/ SamplerDisk
  \/ SamplerPublish
  \/ HistoryCpu
  \/ HistoryMemory
  \/ HistoryDisk
  \/ system_alerts
  \/ HealthMetrics
  \/ health

MonitorSpec == MonitorStart /\ [][MonitorNext]_vars

\* The sampler thread for more turns than the history window is long, and one
\* request for the history, made when the buffers are about that long.
TailNext ==
  \/ SamplerRead(MaxAppends)
  \/ SamplerMemory
  \/ SamplerDisk
  \/ SamplerPublish
  \/ response = NoResponse /\ clock >= QuietTicks /\ HistoryCpu
  \/ HistoryMemory
  \/ HistoryDisk

TailSpec == MonitorStart /\ [][TailNext]_vars

\* The sampler thread and the event stream.  The generator's thread is
\* scheduled again and again; nothing in the program obliges the server to
\* close it.
StreamNext ==
  \/ SamplerRead(MaxSamples)
  \/ SamplerMemory
  \/ SamplerDisk
  \/ SamplerPublish
  \/ metrics_live
  \/ StreamYield
  \/ StreamResume
  \/ ClientDisconnects
  \/ StreamClosed

StreamSpec ==
  /\ MonitorStart
  /\ [][StreamNext]_vars
  /\ WF_vars(StreamYield)
  /\ WF_vars(StreamResume)

\* The sampler thread alone, for more turns than a buffer has places.
HistoryNext ==
  \/ SamplerRead(MaxTicks)
  \/ SamplerMemory
  \/ SamplerDisk
  \/ SamplerPublish

HistorySpec == MonitorStart /\ [][HistoryNext]_vars

\* The process without credentials from the probe of the remote cache on,
\* with the handler threads of app.run(threaded=True) (1794-1800).
VisitorStart ==
  /\ AuditInit({ << >> }, {0})
  /\ demo_mode
  /\ phase = "boot"
  /\ host = QuietHost
  /\ MonitorInit
  /\ VisitorInit

VisitorNext ==
  \/ redis_probe
  \/ \E t \in Threads : HitBegin(t, MaxHits)
  \/ \E t \in Threads : HitIncrStore(t)
  \/ \E t \in Threads : HitPush(t)
  \/ \E t \in Threads : HitTrim(t)
  \/ \E t \in Threads : MonitorRead(t)
  \/ \E t \in Threads : MonitorRecord(t)
  \/ real_metrics
  \/ api_visitors

VisitorSpec == VisitorStart /\ [][VisitorNext]_vars

\* One handler thread serving one hit after the other, for more hits than the
\* lists keep.
DashboardNext ==
  \/ redis_probe
  \/ HitBegin(1, MaxVisits)
  \/ HitIncrStore(1)
  \/ HitPush(1)
  \/ HitTrim(1)
  \/ MonitorRead(1)
  \/ MonitorRecord(1)
  \/ api_visitors

DashboardSpec == VisitorStart /\ [][DashboardNext]_vars

\* ------------------------------------------- properties of the specification
Reported == report.kind \in {"structured", "complete"}

\* The positions of self.findings that audit svc appended during the last call.
IndicesNow(svc) ==
  { i \in 1..Len(origin) : origin[i].audit = svc /\ origin[i].call = calls }

FirstOf(idx) == CHOOSE i \in idx : \A j \in idx : i <= j

\* The findings audit svc appended during the last call, in order.
FindingsNow(svc) ==
  [k \in 1..Cardinality(IndicesNow(svc)) |-> findings[FirstOf(IndicesNow(svc)) + k - 1]]

\* The listing calls of an audit: a failure of one is enumeration-wide.
EnumCalls(svc) ==
  CASE svc = "ec2" -> { "describe_instances", "describe_volumes", "describe_snapshots",
                        "describe_addresses", "describe_security_groups",
                        "describe_images" }
    [] svc = "lambda" -> { "list_functions" }
    [] svc = "s3" -> { "list_buckets" }
    [] svc = "rds" -> { "describe_db_instances" }
    [] svc = "vpc" -> { "describe_vpcs" }
    [] svc = "iam" -> { "list_users", "list_roles", "list_policies" }
    [] svc = "security_groups" -> { "describe_security_groups",
                                    "describe_network_interfaces" }
    [] OTHER -> { }

EnumFails(svc) == EnumCalls(svc) \cap account.failing # { }

Healthy(acct) == [acct EXCEPT !.failing = { }]

AuditedNow == DOMAIN returned \cap { FindingAudits[k] : k \in 1..Len(FindingAudits) }

Key(f) == << f.resource_type, f.resource_id, f.finding >>

\* C1: every audit request is a fresh audit: a structured report holds only
\* findings appended by the call that returned it, and its findings list,
\* total_findings and estimated savings are those a call on a fresh auditor
\* returns for the same account.
C1_EveryAuditIsFresh ==
  report.kind = "structured" =>
    /\ \A i \in 1..Len(report.findings) : origin[i].call = calls
    /\ report.findings =
         get_structured_audit(<< >>, Cloud(account, demo_mode), calls).report.findings
    /\ report.summary =
         get_structured_audit(<< >>, Cloud(account, demo_mode), calls).report.summary

\* C2: no two findings of one report share resource type, resource id and
\* finding.
C2_NoDuplicateFindings ==
  Reported =>
    \A i, j \in 1..Len(report.findings) :
      i # j => Key(report.findings[i]) # Key(report.findings[j])

\* C3: the estimated monthly savings of a report's summary is the sum of
\* estimated_savings over the findings listed in that report.
C3_SavingsIsSumOfFindings ==
  Reported =>
    report.summary.estimated_monthly_savings = TotalSavings(report.findings)

\* C4: when a listing call of one audit fails, the report has that service's
\* error set, the call appended no finding of that service, and every other
\* audit appended what it appends when no call fails.
C4_FailedServiceContributesNothing ==
  (Reported /\ ~demo_mode) =>
    \A svc \in AuditedNow :
      EnumFails(svc) =>
        /\ ~returned[svc].ok
        /\ IndicesNow(svc) = { }
        /\ \A other \in AuditedNow \ {svc} :
              ~EnumFails(other) =>
                 FindingsNow(other) = AuditOf(other, Healthy(account)).added

\* The finding table the report is held to, row by row.  Count(seq, P) is the
\* number of listed resources for which the row's condition P holds.
Count(seq, P(_)) == Cardinality({ k \in 1..Len(seq) : P(seq[k]) })

RECURSIVE OldKeys(_, _)
OldKeys(users, k) ==
  IF k > Len(users) THEN 0
  ELSE Count(users[k].keys, LAMBDA age : age > KeyDays * HoursPerDay)
       + OldKeys(users, k + 1)

TableMatches(acct) ==
    Count(acct.volumes, LAMBDA v : v.State = "available")
  + Count(acct.snapshots, LAMBDA sn : sn.age > SnapshotDays * HoursPerDay)
  + Count(acct.addresses, LAMBDA a : ~a.InstanceId /\ ~a.NetworkInterfaceId)
  + Count(acct.functions, LAMBDA fn : fn.age > LambdaDays * HoursPerDay)
  + Count(acct.buckets, LAMBDA b : b.policy = "public")
  + Count(acct.buckets, LAMBDA b : b.encryption = "notfound")
  + Count(acct.buckets, LAMBDA b : b.objects = "none")
  + Count(acct.users, LAMBDA u : u.mfa = "no")
  + OldKeys(acct.users, 1)
  + Count(acct.dbs, LAMBDA db : db.PubliclyAccessible)
  + Count(acct.dbs, LAMBDA db : db.DBInstanceStatus = "stopped")
  + Count(acct.vpcs, LAMBDA v : v.IsDefault)

\* Every cloud call answers, except that an encryption lookup may be refused.
Answering(acct) ==
  /\ acct.failing = { }
  /\ \A k \in 1..Len(acct.buckets) :
        /\ acct.buckets[k].hasCreationDate
        /\ acct.buckets[k].objects # "error"
        /\ acct.buckets[k].policy # "error"
  /\ \A k \in 1..Len(acct.users) : acct.users[k].mfa # "error"
  /\ \A k \in 1..Len(acct.functions) : acct.functions[k].hasRuntime

\* C5: the number of findings of a report is the number of (resource, row)
\* matches of the finding table: one finding per row whose condition holds
\* (an old snapshot included, an unencrypted bucket only on a not-found
\* answer) and none besides.  Stated for the first run on an account without
\* instances and security groups in which every listing call answers.
C5_FindingsAreTableMatches ==
  ( /\ report.kind = "complete"
    /\ ~demo_mode
    /\ calls = 1
    /\ Answering(account)
    /\ account.instances = << >>
    /\ account.sgs = << >> )
  => /\ report.summary.total_findings = TableMatches(account)
     /\ Len(report.findings) = TableMatches(account)

\* C6: an error that concerns one resource (a bucket, a user, a function) is
\* confined to it: when every listing call of
\* the service answers, the service summary carries no error and counts all
\* the listed resources.
C6_PerResourceErrorConfined ==
  (Reported /\ ~demo_mode) =>
    /\ ( "s3" \in DOMAIN returned /\ ~EnumFails("s3") ) =>
          returned["s3"].ok /\ returned["s3"].total = Len(account.buckets)
    /\ ( "iam" \in DOMAIN returned /\ ~EnumFails("iam") ) =>
          returned["iam"].ok /\ returned["iam"].users.total = Len(account.users)
    /\ ( "lambda" \in DOMAIN returned /\ ~EnumFails("lambda") ) =>
          returned["lambda"].ok /\ returned["lambda"].total = Len(account.functions)

\* The savings the finding table gives a finding of this account.
TableSavings(f, acct) ==
  CASE f.finding = "Unattached EBS volume" -> acct.volumes[f.resource_id[2]].Size * 300
    [] f.finding = "Stopped EC2 instance" -> 6000
    [] f.finding = "Potentially idle EC2 instance" -> 15000
    [] f.finding = "Unattached Elastic IP" -> 360
    [] OTHER -> 0

Running10Days == [state |-> "running", age |-> 240, reason |-> "", hasLaunchTime |-> TRUE]
StoppedInstance == [state |-> "stopped", age |-> 500, reason |-> "", hasLaunchTime |-> TRUE]

\* One running instance launched 10 days ago plus one stopped instance, in
\* either listing order, and nothing else.
RunningPlusStopped(acct) ==
  /\ acct.instances \in { << Running10Days, StoppedInstance >>,
                          << StoppedInstance, Running10Days >> }
  /\ [acct EXCEPT !.instances = << >>] = EmptyAccount

\* C7: every finding's estimated savings is the table value of its kind
\* (3.00 per GB of an unattached volume, 60.00 stopped instance, 150.00 idle
\* instance, 3.60 unattached Elastic IP, 0 otherwise), and the first full
\* report on an account of one running instance launched 10 days ago plus
\* one stopped instance has estimated_monthly_savings 210.00.
C7_SavingsFollowTheTable ==
  /\ (Reported /\ ~demo_mode) =>
        \A i \in 1..Len(report.findings) :
           report.findings[i].estimated_savings
              = TableSavings(report.findings[i], account)
  /\ (report.kind = "complete" /\ ~demo_mode /\ calls = 1
      /\ RunningPlusStopped(account)) =>
        report.summary.estimated_monthly_savings = 21000

\* The sum of the savings of the findings of fs whose text is text.
RECURSIVE SavingsOf(_, _)
SavingsOf(fs, text) ==
  IF fs = << >> THEN 0
  ELSE (IF Head(fs).finding = text THEN Head(fs).estimated_savings ELSE 0)
       + SavingsOf(Tail(fs), text)

FindingOfBucket(type) ==
  CASE type = "unattached_ebs" -> "Unattached EBS volume"
    [] type = "unattached_eip" -> "Unattached Elastic IP"
    [] type = "stopped_instances" -> "Stopped EC2 instance"
    [] OTHER -> "none"

OneUnattachedVolume(acct) ==
  acct = [EmptyAccount EXCEPT !.volumes = << [State |-> "available", Size |-> 50] >>]

\* C8: in a quick report each bucket's cost_per_month is the sum of the
\* estimated savings of the findings of its code, estimated_monthly_cost is
\* the sum of the cost-bearing findings of the EC2 audit; for an account
\* whose only resource is one unattached 50 GB volume there is one bucket
\* with count 1 and cost 150.00, and estimated_monthly_cost is 150.00.
C8_QuickReportSumsSavings ==
  ( /\ response.route = "/api/aws/audit/quick"
    /\ response.status = 200
    /\ "error" \notin DOMAIN response.body
    /\ report.kind = "structured"
    /\ ~demo_mode
    /\ audit_ec2_resources(account).summary.ok )
  => /\ \A k \in 1..Len(response.body.critical_items) :
           response.body.critical_items[k].cost_per_month
             = SavingsOf(audit_ec2_resources(account).added,
                         FindingOfBucket(response.body.critical_items[k].type))
     /\ response.body.estimated_monthly_cost
          = TotalSavings(audit_ec2_resources(account).added)
     /\ OneUnattachedVolume(account) =>
          /\ Len(response.body.critical_items) = 1
          /\ response.body.critical_items[1].count = 1
          /\ response.body.critical_items[1].cost_per_month = 15000
          /\ response.body.estimated_monthly_cost = 15000

\* The resource total one service summary reports.
ServiceTotal(svc, sm) ==
  CASE svc = "ec2" -> sm.instances.total + sm.volumes.total + sm.snapshots.total
                      + sm.amis.total + sm.elastic_ips.total
                      + sm.security_groups.total
    [] svc = "iam" -> sm.users.total + sm.roles.total + sm.policies.total
    [] svc = "vpc" -> sm.vpcs
    [] OTHER -> sm.total

RECURSIVE SumOfTotals(_, _)
SumOfTotals(services, k) ==
  IF k > Len(ServiceNames) THEN 0
  ELSE (IF ServiceNames[k] \in DOMAIN services
        THEN ServiceTotal(ServiceNames[k], services[ServiceNames[k]]) ELSE 0)
       + SumOfTotals(services, k + 1)

\* C9: the total_resources of a report's summary is the sum, over the
\* audited services, of the resource totals those services report, for
\* run_complete_audit and for get_structured_audit.
C9_TotalResourcesIsSumOfTotals ==
  (Reported /\ ~demo_mode) =>
     report.summary.total_resources_audited = SumOfTotals(returned, 1)

PublicUnencryptedBucket(acct) ==
  acct = [EmptyAccount EXCEPT !.buckets =
            << [hasCreationDate |-> TRUE, objects |-> "some", policy |-> "public",
                encryption |-> "notfound", versioning |-> "off"] >>]

\* C10: in a report of run_complete_audit critical_findings is the number of
\* the report's findings of severity CRITICAL or HIGH; for one bucket that
\* is public and unencrypted it is 2.
C10_CriticalCountsCriticalAndHigh ==
  report.kind = "complete" =>
     /\ report.summary.critical_findings = CountCritical(report.findings)
     /\ PublicUnencryptedBucket(account) => report.summary.critical_findings = 2

AuditRoutes == { "/api/aws/audit", "/api/aws/audit/structured", "/api/aws/audit/quick" }

SomeServiceFailed == \E svc \in DOMAIN returned : ~returned[svc].ok

\* C11: each audit endpoint answers 503 with {error, message} exactly when
\* the start-up block found the audit unavailable; the flag never changes
\* once the application serves; a request during which services fail is
\* never answered 503: it gets 200 (or the 500 of a handler exception).
C11_UnavailableIs503 ==
  /\ [](response.route \in AuditRoutes =>
          /\ response.status = 503 <=> ~AWS_AUDIT_AVAILABLE
          /\ response.status = 503 => DOMAIN response.body = {"error", "message"}
          /\ (AWS_AUDIT_AVAILABLE /\ SomeServiceFailed) =>
                \/ response.status = 200
                \/ response.status = 500 /\ response.raised = "handler")
  /\ [][phase = "serving" => AWS_AUDIT_AVAILABLE' = AWS_AUDIT_AVAILABLE]_vars

\* A request answered 200 although listing the buckets was refused.
C11_Witness ==
  /\ response.route \in AuditRoutes
  /\ response.status = 200
  /\ response.raised = "none"
  /\ "list_buckets" \in account.failing
  /\ report.kind = "structured"
  /\ ~returned["s3"].ok

\* C12: a request that meets an exception that is not a service failure is
\* answered with status 500 and a body of error, message and timestamp, by
\* each of the three audit endpoints, and never with status 200.
C12_ExceptionIs500 ==
  (response.route \in AuditRoutes /\ response.raised # "none") =>
     /\ response.status = 500
     /\ DOMAIN response.body = {"error", "message", "timestamp"}

Series == { "cpu", "memory", "disk" }

HistoryOf(name) ==
  IF name = "cpu" THEN cpu_history
  ELSE IF name = "memory" THEN memory_history ELSE disk_history

\* The buffer holds the last entries of the log of appends, in their order.
HoldsTail(buf, log) ==
  /\ Len(buf) = (IF Len(log) < max_history THEN Len(log) ELSE max_history)
  /\ \A i \in 1..Len(buf) : buf[i] = log[Len(log) - Len(buf) + i]

\* C13: each history buffer never holds more than 720 entries; after K
\* appends its length is min(K, 720), the most recent append is its last
\* entry, the entries are in append order and an overflow evicts exactly the
\* oldest entry.
C13_HistoryKeepsLast720 ==
  \A name \in Series :
     /\ Len(HistoryOf(name)) <= max_history
     /\ HoldsTail(HistoryOf(name), appended[name])

\* More appends than places: the two oldest entries are gone.
C13_Witness ==
  /\ Len(appended.disk) = max_history + 2
  /\ Len(disk_history) = max_history
  /\ disk_history[1].time = 3
  /\ disk_history[max_history].time = max_history + 2

\* C14: the three series returned by one get_history call all reflect the
\* state before a sampler tick or all the state after it: equal lengths
\* (under capacity) and the same time stamp on their last entries.
C14_HistoryReadIsAtomic ==
  response.route = "/api/metrics/history" =>
     /\ Len(response.body.cpu) = Len(response.body.memory)
     /\ Len(response.body.memory) = Len(response.body.disk)
     /\ Len(response.body.cpu) > 0 =>
          /\ response.body.cpu[Len(response.body.cpu)].time
               = response.body.memory[Len(response.body.memory)].time
          /\ response.body.cpu[Len(response.body.cpu)].time
               = response.body.disk[Len(response.body.disk)].time

FailedTurn(turn) == turn >= 1 /\ ReadingAt(host, turn).fails # "none"

\* C15: a turn of the sampler loop during which a host read fails changes
\* neither the current sample, nor a history buffer, nor the network
\* baseline.
C15_FailedTickIsSkipped ==
  [][FailedTurn(clock') =>
       UNCHANGED << current_metrics, cpu_history, memory_history, disk_history,
                    last_net_io, last_net_time >>]_vars

AlertsOf(alerts, metric) == SelectSeq(alerts, LAMBDA a : a.metric = metric)

AlertRight(found, value, threshold, level) ==
  /\ Len(found) <= 1
  /\ Len(found) = 1 <=> value > threshold
  /\ Len(found) = 1 =>
       /\ found[1].value = value
       /\ found[1].threshold = threshold
       /\ found[1].level = level

AlertsRight(alerts, metrics) ==
  /\ AlertRight(AlertsOf(alerts, "cpu"), metrics.cpu, 8000,
                IF metrics.cpu < 9000 THEN "WARNING" ELSE "CRITICAL")
  /\ AlertRight(AlertsOf(alerts, "memory"), metrics.memory, 8500,
                IF metrics.memory < 9500 THEN "WARNING" ELSE "CRITICAL")
  /\ AlertRight(AlertsOf(alerts, "disk"), metrics.disk, 9000, "CRITICAL")
  /\ \A i \in 1..Len(alerts) : alerts[i].metric \in Series

\* C20: an alert is raised for a metric exactly when the current sample's
\* value is strictly greater than the threshold; a cpu alert is WARNING below
\* 90 and CRITICAL from 90 on, a memory alert WARNING below 95 and CRITICAL
\* from 95 on, a disk alert always CRITICAL; an alert carries metric, value
\* and threshold, and there is at most one alert per metric.
C20_AlertsFollowThresholds ==
  [][(response' # response /\ response'.route = "/api/system/alerts") =>
        /\ AlertsRight(response'.body.alerts, current_metrics)
        /\ response'.body.count = Len(response'.body.alerts)]_vars

\* A sample of cpu 80.01, memory 85.01, disk 90.01: three alerts, two of them
\* warnings.
C20_Witness ==
  /\ response.route = "/api/system/alerts"
  /\ Len(response.body.alerts) = 3
  /\ response.body.alerts[1].level = "WARNING"
  /\ response.body.alerts[1].value = 8001
  /\ response.body.alerts[3].level = "CRITICAL"

\* C16: a dashboard hit obtains a count strictly greater than the count of
\* every hit that had completed when it began, and no two hits obtain the
\* same count.
C16_CountsStrictlyIncrease ==
  \A i, j \in 1..Len(completed) :
     /\ i # j => completed[i].count # completed[j].count
     /\ i <= completed[j].seen => completed[i].count < completed[j].count

\* C17: once the probe of the remote cache has failed the flag stays false,
\* no call reaches the remote cache, the dashboard reports 'In-Memory',
\* redis_connected is false and the visit operations act on the in-process
\* store.
C17_FailedProbeIsSticky ==
  /\ []((phase = "serving" /\ ~REDIS_AVAILABLE) =>
          /\ ~remote_contacted
          /\ remote_failures = 0
          /\ response.route = "/" => response.body.redis_status = "In-Memory"
          /\ response.route = "/api/real-metrics" => ~response.body.redis_connected
          /\ response.route = "/api/visitors" => response.raised = "none")
  /\ [][phase = "serving" => REDIS_AVAILABLE' = REDIS_AVAILABLE]_vars

\* After a failed probe two hits were counted and /api/visitors listed them
\* from the in-process store.
C17_Witness ==
  /\ phase = "serving"
  /\ ~REDIS_AVAILABLE
  /\ Len(completed) >= 2
  /\ redis_data.visitor_count >= 2
  /\ response.route = "/api/visitors"
  /\ Len(response.body.recent) >= 2
  /\ response.body.total >= 2

Quiet == \A t \in Threads : handler[t].pc = "idle"

MostRecent(n) == IF Len(completed) < n THEN Len(completed) ELSE n

\* C18: between hits, recent_visits and the in-process list hold at most 50
\* records each, the records of the most recent hits: recent_visits newest
\* first, the in-process list oldest first with consecutive visitor numbers.
C18_ListsHoldLast50 ==
  Quiet =>
     /\ Len(visitor_details) = MostRecent(VisitsKept)
     /\ \A i \in 1..Len(visitor_details) :
          /\ visitor_details[i].hit
               = completed[Len(completed) - Len(visitor_details) + i].hit
          /\ i > 1 => visitor_details[i].visitor_number
                        = visitor_details[i - 1].visitor_number + 1
     /\ Len(redis_data.recent_visits) = MostRecent(VisitsKept)
     /\ \A i \in 1..Len(redis_data.recent_visits) :
          json_loads(redis_data.recent_visits[i]).hit
            = completed[Len(completed) - i + 1].hit

HitsOf(records) == { records[i].hit : i \in 1..Len(records) }

\* C19: /api/visitors answers with the 10 most recent records of the cache
\* list in 'recent' and the 10 most recent records of the in-process list in
\* 'flask_recent'.
C19_VisitorsListsMostRecent ==
  [][(response' # response /\ response'.route = "/api/visitors"
        /\ response'.raised = "none") =>
        /\ HitsOf(response'.body.recent)
             = { json_loads(redis_data.recent_visits[i]).hit :
                   i \in 1..(IF Len(redis_data.recent_visits) < 10
                             THEN Len(redis_data.recent_visits) ELSE 10) }
        /\ HitsOf(response'.body.flask_recent)
             = HitsOf(LastN(visitor_details, 10))]_vars

CriticalListed(alerts) == \E i \in 1..Len(alerts) : alerts[i].level = "CRITICAL"

\* C21: /health answers 200 with a status that is critical exactly when a
\* listed alert is CRITICAL, degraded exactly when alerts are listed and none
\* is CRITICAL, healthy exactly when no alert is listed.
C21_HealthStatusFollowsAlerts ==
  response.route = "/health" =>
     /\ response.status = 200
     /\ response.body.status \in { "healthy", "degraded", "critical" }
     /\ response.body.status = "critical" <=> CriticalListed(response.body.alerts)
     /\ response.body.status = "degraded" <=>
          (Len(response.body.alerts) > 0 /\ ~CriticalListed(response.body.alerts))
     /\ response.body.status = "healthy" <=> Len(response.body.alerts) = 0

\* Two warnings and no critical alert: degraded.
C21_Witness ==
  /\ response.route = "/health"
  /\ response.body.status = "degraded"
  /\ Len(response.body.alerts) = 2
  /\ response.body.alerts[1].level = "WARNING"

\* C30: in a /health response the status is healthy if and only if cpu_ok,
\* memory_ok and disk_ok are all true.
C30_HealthyIffChecksPass ==
  response.route = "/health" =>
     (response.body.status = "healthy" <=>
        /\ response.body.checks.cpu_ok
        /\ response.body.checks.memory_ok
        /\ response.body.checks.disk_ok)

\* out holds the last min(n, 60) entries of buf, in their order.
IsTail(out, buf) ==
  /\ Len(out) = (IF Len(buf) < 60 THEN Len(buf) ELSE 60)
  /\ \A i \in 1..Len(out) : out[i] = buf[Len(buf) - Len(out) + i]
  /\ \A i \in 1..(Len(out) - 1) : out[i].time < out[i + 1].time

\* C22: get_history returns for each of cpu, memory and disk the last
\* min(n, 60) entries of the buffer, n being its length when it is read, in
\* chronological order, and leaves the three buffers unchanged.
C22_HistoryReturnsTail ==
  [][/\ (reader.pc = "idle" /\ reader'.pc = "cpu") =>
          /\ IsTail(reader'.cpu, cpu_history)
          /\ UNCHANGED << cpu_history, memory_history, disk_history >>
     /\ (reader.pc = "cpu" /\ reader'.pc = "memory") =>
          /\ IsTail(reader'.memory, memory_history)
          /\ UNCHANGED << cpu_history, memory_history, disk_history >>
     /\ (reader.pc = "memory" /\ reader'.pc = "idle") =>
          /\ response'.route = "/api/metrics/history"
          /\ response'.body.cpu = reader.cpu
          /\ response'.body.memory = reader.memory
          /\ IsTail(response'.body.disk, disk_history)
          /\ UNCHANGED << cpu_history, memory_history, disk_history >>]_vars

\* Sixty entries returned from buffers that held sixty-two.
C22_Witness ==
  /\ response.route = "/api/metrics/history"
  /\ Len(response.body.cpu) = 60
  /\ response.body.cpu[1].time = 3
  /\ response.body.disk[60].time = 62

FoundNow(svc, id, text) ==
  \E i \in IndicesNow(svc) :
     findings[i].resource_id = id /\ findings[i].finding = text

KeysOf(acct) ==
  { << u, j >> : u \in 1..Len(acct.users), j \in 1..MaxItems } \cap
  UNION { { << u, j >> : j \in 1..Len(acct.users[u].keys) } : u \in 1..Len(acct.users) }

\* C24: within one audit run two resources with the same time stamp are put in
\* the same age class: two running instances with the same launch time are
\* both reported idle or both not, and two access keys with the same creation
\* date are both reported old or both not, however long the run takes.
C24_SameStampSameClass ==
  (calls > 0 /\ ~demo_mode) =>
     /\ ("ec2" \in DOMAIN returned /\ returned["ec2"].ok) =>
           \A i, j \in 1..Len(account.instances) :
              account.instances[i] = account.instances[j] =>
                 (FoundNow("ec2", << "i", i >>, "Potentially idle EC2 instance")
                    <=> FoundNow("ec2", << "i", j >>, "Potentially idle EC2 instance"))
     /\ ("iam" \in DOMAIN returned /\ returned["iam"].ok) =>
           \A a, b \in KeysOf(account) :
              account.users[a[1]].keys[a[2]] = account.users[b[1]].keys[b[2]] =>
                 (FoundNow("iam", << "key", a[1], a[2] >>, "Old IAM access key")
                    <=> FoundNow("iam", << "key", b[1], b[2] >>, "Old IAM access key"))

\* C26: an instance gets the idle finding exactly when its state is
\* 'running', its launch time lies more than 7 x 24 hours before the audit and
\* its state reason is not a user-initiated shutdown; a running instance
\* launched 7 days and 1 hour before the audit is reported idle.
C26_IdleAfterSevenDays ==
  (calls > 0 /\ ~demo_mode /\ "ec2" \in DOMAIN returned /\ returned["ec2"].ok) =>
     \A i \in 1..Len(account.instances) :
        FoundNow("ec2", << "i", i >>, "Potentially idle EC2 instance")
          <=> /\ account.instances[i].state = "running"
              /\ account.instances[i].age > IdleDays * HoursPerDay
              /\ account.instances[i].reason # "Client.UserInitiatedShutdown"

\* The rule admits the whole internet to a port range that contains a risky
\* port (an absent range is every port).
CoversRiskyPort(rule) ==
  /\ rule.cidr = "0.0.0.0/0"
  /\ \/ rule.FromPort = NoPort
     \/ \E p \in RiskyPorts :
           rule.FromPort # NoPort /\ rule.FromPort <= p /\ p <= rule.ToPort

\* C27: a security group gets an overly-permissive finding exactly when it
\* has an ingress rule open to 0.0.0.0/0 whose port range [FromPort, ToPort]
\* contains one of the risky ports (a rule 20-25, or all ports, included);
\* the finding has severity HIGH and zero savings.
C27_RiskyRangeFlagged ==
  (calls > 0 /\ ~demo_mode) =>
     \A svc \in { "ec2", "security_groups" } :
        (svc \in DOMAIN returned /\ returned[svc].ok) =>
           /\ \A k \in 1..Len(account.sgs) :
                 FoundNow(svc, << "sg", k >>, "Overly permissive security group")
                   <=> \E r \in 1..Len(account.sgs[k].rules) :
                          CoversRiskyPort(account.sgs[k].rules[r])
           /\ \A i \in IndicesNow(svc) :
                 findings[i].finding = "Overly permissive security group" =>
                    findings[i].severity = "HIGH" /\ findings[i].estimated_savings = 0

\* No call to the account raises: no listing call and no call made per bucket
\* or per user.
EveryCallSucceeds(acct) ==
  /\ acct.failing = { }
  /\ \A b \in 1..Len(acct.buckets) :
        /\ acct.buckets[b].objects # "error"
        /\ acct.buckets[b].policy # "error"
        /\ acct.buckets[b].encryption # "denied"
  /\ \A u \in 1..Len(acct.users) : acct.users[u].mfa # "error"

\* C29: when every cloud call succeeds and every instance record carries its
\* state and launch time, audit_ec2_resources returns a summary without an
\* error key whose instances.total is the number of instances, whatever their
\* order and states, and every entry of the list carries the launch time of
\* its own instance.
C29_InstancesListedInFull ==
  ( /\ calls > 0 /\ ~demo_mode /\ "ec2" \in DOMAIN returned
    /\ EveryCallSucceeds(account)
    /\ \A i \in 1..Len(account.instances) : account.instances[i].hasLaunchTime ) =>
     /\ returned["ec2"].ok
     /\ returned["ec2"].instances.total = Len(account.instances)
     /\ Len(returned["ec2"].instances.list) = Len(account.instances)
     /\ \A i \in 1..Len(account.instances) :
           /\ returned["ec2"].instances.list[i].id = << "i", i >>
           /\ returned["ec2"].instances.list[i].launch_time
                 = [set |-> TRUE, value |-> account.instances[i].age]

\* The summary of audit svc marks a failure and carries no count.
MarkedFailed(summary) ==
  /\ ~summary.ok
  /\ summary.total = 0
  /\ summary.public_buckets = << >> /\ summary.unencrypted_buckets = << >>
  /\ summary.unversioned_buckets = << >> /\ summary.empty_buckets = << >>

\* C25: when the bucket listing fails, the returned report, complete or
\* structured, marks S3 with an error and zero S3 counts while the other
\* services are reported as without the failure; a structured report never
\* has status 'success' (it has no other place for an error) when one of its
\* EC2, S3 or IAM audits failed.
C25_S3FailureIsReported ==
  (Reported /\ ~demo_mode) =>
     /\ "list_buckets" \in account.failing =>
           /\ MarkedFailed(returned["s3"])
           /\ \A svc \in DOMAIN returned \ { "s3" } :
                 returned[svc]
                   = AuditOf(svc, [account EXCEPT !.failing = @ \ { "list_buckets" }]).summary
           /\ report.kind = "complete" => MarkedFailed(report.services["s3"])
           /\ report.kind = "structured" => report.details.s3.total = 0
     /\ (report.kind = "structured" /\ \E svc \in { "ec2", "s3", "iam" } : ~returned[svc].ok)
           => report.status # "success"

\* C28: of two audit requests that run concurrently in their own handler
\* threads on the shared auditor, each returns a report that is internally
\* consistent and private to the request: total_findings is the length of its
\* own findings list, the savings are the sum over that list, and the list
\* holds no finding the other request appended.
C28_ConcurrentReportsPrivate ==
  \A t \in Threads :
     (handler[t].pc = "done" /\ handler[t].overlap) =>
        /\ handler[t].report.summary.total_findings = Len(handler[t].report.findings)
        /\ handler[t].report.summary.estimated_monthly_savings
              = TotalSavings(handler[t].report.findings)
        /\ \A u \in Threads \ {t}, i \in 1..Len(handler[t].list_origin) :
              Running(handler[u]) \/ handler[u].pc = "done"
                 => handler[t].list_origin[i].call # handler[u].call

================================================================================
